---- MODULE Spec2Model ----
(***************************************************************************)
(* Order gateway (hooks/use-supabase.ts) and order page (app page) of      *)
(* pedidos-iseas: the persisted store (remote tables or the local          *)
(* "orders" slot), each client's module-level ordersCache, the page state  *)
(* built on it, and the asynchronous handlers that move them.              *)
(*                                                                         *)
(* An asynchronous handler is split at its awaits: one action runs the     *)
(* synchronous code up to an await together with the backend's execution   *)
(* of the awaited request; the next action is the continuation.  In local  *)
(* mode a gateway call has no await and is one action.                     *)
(***************************************************************************)
EXTENDS Integers, Sequences, FiniteSets, TLC

(* ------------------------------ bounds --------------------------------- *)
MaxOrders == 2
MaxHist == 4
MaxCalls == 2
MaxFailures == 1
MaxWriters == 1
MaxNotifs == 2

(* ------------------------- program constants --------------------------- *)
CACHE_MS == 5000
LIMIT_ACTIVE == 60
LIMIT_ALL == 200

Undef == "undefined"
Null == "null"

OrderStatus ==
  <<"en_armado", "armado", "armado_controlado", "facturado",
    "factura_controlada", "en_transito", "entregado", "pagado">>

StatusSet == {OrderStatus[i] : i \in 1..Len(OrderStatus)}

DEFAULT_USERS ==
  << [id |-> "riki-1", name |-> "Riki", role |-> "vale"],
     [id |-> "camilo-1", name |-> "Camilo", role |-> "armador"],
     [id |-> "jesus-1", name |-> "Jesus", role |-> "armador"] >>

Users == {DEFAULT_USERS[i] : i \in 1..Len(DEFAULT_USERS)}

Clients == {"c1", "c2"}
Modes == {"remote", "local"}
OrderIds == 1..MaxOrders

(* ------------------------------ helpers -------------------------------- *)
Range(s) == {s[i] : i \in 1..Len(s)}

Take(s, n) == IF Len(s) <= n THEN s ELSE SubSeq(s, 1, n)

Filter(s, Test(_)) == SelectSeq(s, Test)

Map(s, F(_)) == [i \in 1..Len(s) |-> F(s[i])]

\* JavaScript truthiness of a nullable value: undefined, null, 0 and "" are falsy.
Truthy(x) == x \notin {Undef, Null, ""}

\* Array.prototype.findIndex, 0 standing for -1.
FindIndex(s, id) ==
  IF \E i \in 1..Len(s) : s[i].id = id
  THEN CHOOSE i \in 1..Len(s) : s[i].id = id /\ \A j \in 1..(i - 1) : s[j].id # id
  ELSE 0

RECURSIVE SortHist(_)
\* .sort((a, b) => a.timestamp - b.timestamp) over a set of history rows.
SortHist(S) ==
  IF S = {} THEN <<>>
  ELSE LET m == CHOOSE x \in S : \A y \in S : x.timestamp <= y.timestamp
       IN <<m>> \o SortHist(S \ {m})

RECURSIVE DescIds(_)
\* .order("created_at", { ascending: false }): ids are handed out in creation order.
DescIds(S) ==
  IF S = {} THEN <<>>
  ELSE LET m == CHOOSE x \in S : \A y \in S : y <= x
       IN <<m>> \o DescIds(S \ {m})

HistIds(h) == {h[i].id : i \in 1..Len(h)}

Ids(list) == {list[i].id : i \in 1..Len(list)}

RemoveAt(s, k) == [i \in 1..(Len(s) - 1) |-> IF i < k THEN s[i] ELSE s[i + 1]]

(* ------------------------------- state --------------------------------- *)
VARIABLES
  mode,          \* "remote" (supabase client present) or "local" (localStorage)
  db,            \* remote tables: orders, products, missing_products, returned_products, order_history
  ls,            \* localStorage "orders" slot: <<>> (no item) or <<list>>
  cache,         \* ordersCache of each client
  sinceFetch,    \* Date.now() - lastFetchTime of each client, saturated at CACHE_MS
  orders,        \* page state `orders` of each client
  buckets,       \* the three lists each client's last render derived from `orders`
  currentUser,   \* page state `currentUser`: <<>> (null) or <<user>>
  selectedOrder, \* page state `selectedOrder`: <<>> (null) or <<order>>
  savedUser,     \* localStorage "currentUser" slot of each device: <<>> or <<user>>
  proc,          \* the handler each client is running and where it is suspended
  nextOrderId,   \* generateUniqueId("PED-")
  nextHistId,    \* generateUniqueId("HIST-") / new Date() of a history entry
  calls,         \* handler invocations so far
  failures,      \* backend requests that failed so far
  rt,            \* the realtime callbacks of each client whose fetchOrders is in flight
  delivered,     \* change notifications delivered so far
  corrupt,       \* the localStorage slots whose text is not valid JSON
  previousOrders, \* page state `previousOrders` of each client
  notifications, \* what addNotification has been called with on each client
  nextActions,   \* the action label each client's last render put on each card
  mounted,       \* the clients whose page is mounted
  interval,      \* the clients with a running setInterval of the fallback poll
  channels       \* the clients with a subscribed "orders-realtime" channel

vars == <<mode, db, ls, cache, sinceFetch, orders, buckets, currentUser,
          selectedOrder, savedUser, proc, nextOrderId, nextHistId, calls, failures,
          rt, delivered, corrupt,
          previousOrders, notifications, nextActions, mounted, interval, channels>>

pageVars == <<previousOrders, notifications, nextActions, mounted, interval, channels>>

useLocalStorage == mode = "local"

\* The page of every client mounted, its effects run (the poll's interval when there
\* is no backend client, the realtime channel when there is one), nothing observed yet.
InitPage ==
  /\ previousOrders = [c \in Clients |-> <<>>]
  /\ notifications = [c \in Clients |-> <<>>]
  /\ nextActions = [c \in Clients |-> <<>>]
  /\ mounted = Clients
  /\ interval = IF useLocalStorage THEN Clients ELSE {}
  /\ channels = IF useLocalStorage THEN {} ELSE Clients

Idle == [h |-> "idle", pc |-> "idle", arg |-> <<>>, user |-> <<>>, resp |-> <<>>,
         ok |-> TRUE, force |-> FALSE, prio |-> FALSE, at |-> 0, stage |-> 0]

\* The clients whose handler is inside a gateway call that writes to the store.
Writers == {c \in Clients : proc[c].pc \notin {"idle", "fetch", "fetchResp"}}

\* A handler that writes may start: the budget of calls and of concurrent writers.
MayWrite(c) ==
  /\ proc[c].h = "idle" /\ currentUser[c] # <<>>
  /\ calls < MaxCalls /\ Cardinality(Writers) < MaxWriters

(* ------------------------------ mapping -------------------------------- *)
\* The joined row `orders (*, products (*), missing_products (*), ...)` of order id.
JoinedRow(id) ==
  [id |-> id,
   row |-> db.orders[id][1],
   products |-> db.products[id],
   missing_products |-> db.missing_products[id],
   returned_products |-> db.returned_products[id],
   order_history |-> db.order_history[id]]

mapProduct(p) ==
  [id |-> p.id,
   quantity |-> p.quantity,
   originalQuantity |-> IF p.original_quantity # <<>> /\ p.original_quantity[1] # 0
                        THEN p.original_quantity ELSE <<>>,
   isChecked |-> p.is_checked]

mapMissing(m) == [productId |-> m.product_id, quantity |-> m.quantity]

mapReturned(r) == [productId |-> r.product_id, quantity |-> r.quantity, reason |-> r.reason]

mapHistory(h) == [id |-> h.id, user |-> h.user_name, timestamp |-> h.created_at]

mapOrderRow(d) ==
  [id |-> d.id,
   status |-> d.row.status,
   isPaid |-> d.row.is_paid,
   currentlyWorkingBy |-> d.row.currently_working_by,
   workingStartTime |-> IF Truthy(d.row.working_start_time)
                        THEN d.row.working_start_time ELSE Undef,
   totalAmount |-> IF d.row.total_amount # <<>> /\ d.row.total_amount[1] # 0
                   THEN d.row.total_amount ELSE <<>>,
   products |-> Map(d.products, mapProduct),
   missingProducts |-> Map(d.missing_products, mapMissing),
   returnedProducts |-> Map(d.returned_products, mapReturned),
   history |-> SortHist({mapHistory(h) : h \in d.order_history}),
   statusHist |-> d.row.statusHist]

\* JSON.parse(saved).map(...) of the local slot: a Date survives the trip through its
\* ISO string, a key holding undefined is dropped and reads back as undefined.
parseStored(o) ==
  [o EXCEPT !.workingStartTime = IF Truthy(o.workingStartTime) THEN o.workingStartTime ELSE Undef]

(* ------------------------- page: categories ---------------------------- *)
IsActive(o) == o.status # "pagado" /\ o.status # "entregado"

IsPendingPayment(o) == o.status = "entregado" /\ ~o.isPaid

IsCompleted(o) == o.status = "pagado"

\* The three lists a render derives from `orders`.
Categorize(list) ==
  [activeOrders |-> Filter(list, IsActive),
   pendingPaymentOrders |-> Filter(list, IsPendingPayment),
   completedOrders |-> Filter(list, IsCompleted)]

(* --------------------------- fetchOrders ------------------------------- *)
\* What the query of fetchOrders returns: the joined rows, newest first.
QueryOrders(prioritizeActive) ==
  LET ids == {i \in OrderIds : /\ db.orders[i] # <<>>
                               /\ prioritizeActive => db.orders[i][1].status # "pagado"}
      rows == [k \in 1..Cardinality(ids) |-> JoinedRow(DescIds(ids)[k])]
  IN Take(rows, IF prioritizeActive THEN LIMIT_ACTIVE ELSE LIMIT_ALL)

IsPaidOrder(o) == o.status = "pagado"

\* A variant of MergeFetched that replaces the cache whatever the kind of fetch.
MergeFetchedReplace(old, mapped, prioritizeActive) == mapped

\* ordersCache after a successful remote fetch returned `mapped`.
MergeFetched(old, mapped, prioritizeActive) ==
  IF prioritizeActive THEN mapped \o Filter(old, IsPaidOrder) ELSE mapped

\* The continuation of a handler after `await fetchOrders(...)` returned `res`:
\* setOrders(res), then what the handler does next.
AfterFetch(c, res) ==
  LET p == proc[c] IN
  /\ orders' = [orders EXCEPT ![c] = res]
  /\ buckets' = [buckets EXCEPT ![c] = Categorize(res)]
  /\ selectedOrder' =
       IF p.h = "select"
       THEN [selectedOrder EXCEPT ![c] =
               IF FindIndex(res, p.arg[1].id) # 0
               THEN <<res[FindIndex(res, p.arg[1].id)]>> ELSE p.arg]
       ELSE IF p.h = "close" THEN [selectedOrder EXCEPT ![c] = <<>>]
       ELSE selectedOrder
  /\ proc' =
       IF p.h \in {"load", "refresh"} /\ p.stage = 1
       THEN [proc EXCEPT ![c] = [p EXCEPT !.pc = "fetch", !.force = (p.h = "refresh"),
                                          !.prio = FALSE, !.stage = 2, !.resp = <<>>]]
       ELSE [proc EXCEPT ![c] = Idle]

\* A variant of CacheWindowHit that does not look at the length of the cache.
CacheWindowHitAnyCache(c) ==
  ~proc[c].force /\ sinceFetch[c] < CACHE_MS

\* The cache-window test: not forced, a non-empty cache, fetched less than CACHE_MS ago.
CacheWindowHit(c) ==
  ~proc[c].force /\ cache[c] # <<>> /\ sinceFetch[c] < CACHE_MS

\* fetchOrders up to its await: the cache window, the local slot (absent, not
\* parseable: JSON.parse throws into the catch, which returns the cache, or parsed),
\* or the remote query.
FetchOrdersCall(c) ==
  /\ proc[c].pc = "fetch"
  /\ \/ /\ CacheWindowHit(c)
        /\ AfterFetch(c, cache[c])
        /\ UNCHANGED <<cache, sinceFetch, failures>>
     \/ /\ ~CacheWindowHit(c) /\ useLocalStorage /\ ~corrupt.orders /\ ls = <<>>
        /\ AfterFetch(c, <<>>)
        /\ UNCHANGED <<cache, sinceFetch, failures>>
     \/ /\ ~CacheWindowHit(c) /\ useLocalStorage /\ corrupt.orders
        /\ AfterFetch(c, cache[c])
        /\ UNCHANGED <<cache, sinceFetch, failures>>
     \/ /\ ~CacheWindowHit(c) /\ useLocalStorage /\ ~corrupt.orders /\ ls # <<>>
        /\ cache' = [cache EXCEPT ![c] = Map(ls[1], parseStored)]
        /\ sinceFetch' = [sinceFetch EXCEPT ![c] = 0]
        /\ AfterFetch(c, Map(ls[1], parseStored))
        /\ UNCHANGED failures
     \/ /\ ~CacheWindowHit(c) /\ ~useLocalStorage
        /\ proc' = [proc EXCEPT ![c].pc = "fetchResp", ![c].ok = TRUE, ![c].at = 0,
                                ![c].resp = QueryOrders(proc[c].prio)]
        /\ UNCHANGED <<cache, sinceFetch, orders, buckets, selectedOrder, failures>>
     \/ /\ ~CacheWindowHit(c) /\ ~useLocalStorage /\ failures < MaxFailures
        /\ proc' = [proc EXCEPT ![c].pc = "fetchResp", ![c].ok = FALSE, ![c].at = 0]
        /\ failures' = failures + 1
        /\ UNCHANGED <<cache, sinceFetch, orders, buckets, selectedOrder>>
  /\ UNCHANGED <<mode, pageVars, rt, delivered, corrupt, db, ls, currentUser, savedUser, nextOrderId, nextHistId, calls>>

\* fetchOrders after its await: merge into the cache, or on error return the cache.
FetchOrdersResp(c) ==
  /\ proc[c].pc = "fetchResp"
  /\ LET p == proc[c]
         merged == MergeFetched(cache[c], Map(p.resp, mapOrderRow), p.prio)
     IN IF p.ok
        THEN /\ cache' = [cache EXCEPT ![c] = merged]
             /\ sinceFetch' = [sinceFetch EXCEPT ![c] = p.at]
             /\ AfterFetch(c, merged)
        ELSE /\ AfterFetch(c, cache[c])
             /\ UNCHANGED <<cache, sinceFetch>>
  /\ UNCHANGED <<mode, pageVars, rt, delivered, corrupt, db, ls, currentUser, savedUser, nextOrderId, nextHistId, calls, failures>>

(* ---------------------------- createOrder ------------------------------ *)
\* A variant of OptimisticOrder that leaves originalQuantity of the line items unset.
OptimisticOrderNoOriginal(orderData, user, orderId, histId) ==
  [id |-> orderId,
   status |-> "en_armado",
   isPaid |-> FALSE,
   currentlyWorkingBy |-> Undef,
   workingStartTime |-> Undef,
   totalAmount |-> orderData.totalAmount,
   products |-> [i \in 1..Len(orderData.products) |->
                   [id |-> orderData.products[i].id,
                    quantity |-> orderData.products[i].quantity,
                    originalQuantity |-> <<>>,
                    isChecked |-> FALSE]],
   missingProducts |-> <<>>,
   returnedProducts |-> <<>>,
   history |-> <<[id |-> histId, user |-> user.name, timestamp |-> histId]>>,
   statusHist |-> 0]

\* The order createOrder builds from orderData for the acting user.
OptimisticOrder(orderData, user, orderId, histId) ==
  [id |-> orderId,
   status |-> "en_armado",
   isPaid |-> FALSE,
   currentlyWorkingBy |-> Undef,
   workingStartTime |-> Undef,
   totalAmount |-> orderData.totalAmount,
   products |-> [i \in 1..Len(orderData.products) |->
                   [id |-> orderData.products[i].id,
                    quantity |-> orderData.products[i].quantity,
                    originalQuantity |-> <<orderData.products[i].quantity>>,
                    isChecked |-> FALSE]],
   missingProducts |-> <<>>,
   returnedProducts |-> <<>>,
   history |-> <<[id |-> histId, user |-> user.name, timestamp |-> histId]>>,
   statusHist |-> 0]

\* The row createOrder inserts into `orders`; columns it does not name are NULL.
InsertedOrderRow(orderData) ==
  [status |-> "en_armado",
   is_paid |-> FALSE,
   currently_working_by |-> Null,
   working_start_time |-> Null,
   total_amount |-> orderData.totalAmount,
   statusHist |-> 0]

\* The rows createOrder inserts into `products`.
InsertedProductRows(orderData) ==
  [i \in 1..Len(orderData.products) |->
     [id |-> orderData.products[i].id,
      quantity |-> orderData.products[i].quantity,
      original_quantity |-> <<orderData.products[i].quantity>>,
      is_checked |-> FALSE]]

\* The row createOrder inserts into `order_history`: a second generateUniqueId call,
\* created_at left to the backend.
InsertedHistoryRow(user, histId) ==
  [id |-> histId, user_name |-> user.name, created_at |-> histId]

\* handleCreateOrder -> createOrder: the optimistic insert, then the local slot or
\* the insert into `orders`.
HandleCreateOrder(c, orderData) ==
  /\ MayWrite(c)
  /\ currentUser[c][1].role = "vale"
  /\ nextOrderId <= MaxOrders /\ nextHistId < MaxHist
  /\ LET user == currentUser[c][1]
         optimistic == OptimisticOrder(orderData, user, nextOrderId, nextHistId)
         p == [Idle EXCEPT !.h = "create", !.arg = <<optimistic>>, !.user = <<user>>,
                           !.force = TRUE, !.prio = TRUE]
     IN /\ cache' = [cache EXCEPT ![c] = <<optimistic>> \o cache[c]]
        /\ nextOrderId' = nextOrderId + 1
        /\ nextHistId' = nextHistId + 1
        /\ calls' = calls + 1
        /\ \/ /\ useLocalStorage /\ ~corrupt.orders
              /\ ls' = <<(<<optimistic>> \o (IF ls = <<>> THEN <<>> ELSE ls[1]))>>
              /\ proc' = [proc EXCEPT ![c] = [p EXCEPT !.pc = "fetch"]]
              /\ UNCHANGED <<db, failures>>
           \/ /\ useLocalStorage /\ corrupt.orders
              /\ proc' = [proc EXCEPT ![c] = [p EXCEPT !.pc = "createCatch"]]
              /\ UNCHANGED <<db, ls, failures>>
           \/ /\ ~useLocalStorage
              /\ db' = [db EXCEPT !.orders[optimistic.id] = <<InsertedOrderRow(orderData)>>]
              /\ proc' = [proc EXCEPT ![c] = [p EXCEPT !.pc = "createProducts",
                                                       !.resp = <<orderData>>]]
              /\ UNCHANGED <<ls, failures>>
           \/ /\ ~useLocalStorage /\ failures < MaxFailures
              /\ failures' = failures + 1
              /\ proc' = [proc EXCEPT ![c] = [p EXCEPT !.pc = "createCatch"]]
              /\ UNCHANGED <<db, ls>>
  /\ UNCHANGED <<mode, pageVars, rt, delivered, corrupt, buckets, sinceFetch, orders, currentUser, savedUser, selectedOrder>>

\* createOrder: the insert into `products`.
CreateProducts(c) ==
  /\ proc[c].pc = "createProducts"
  /\ LET p == proc[c] IN
     \/ /\ db' = [db EXCEPT !.products[p.arg[1].id] = @ \o InsertedProductRows(p.resp[1])]
        /\ proc' = [proc EXCEPT ![c].pc = "createHistory"]
        /\ UNCHANGED failures
     \/ /\ failures < MaxFailures
        /\ failures' = failures + 1
        /\ proc' = [proc EXCEPT ![c].pc = "createCatch"]
        /\ UNCHANGED db
  /\ UNCHANGED <<mode, pageVars, rt, delivered, corrupt, buckets, ls, cache, sinceFetch, orders, currentUser, savedUser, selectedOrder,
                 nextOrderId, nextHistId, calls>>

\* createOrder: the insert into `order_history`.
CreateHistory(c) ==
  /\ proc[c].pc = "createHistory"
  /\ LET p == proc[c] IN
     \/ /\ db' = [db EXCEPT !.order_history[p.arg[1].id] =
                                @ \cup {InsertedHistoryRow(p.user[1], nextHistId)}]
        /\ nextHistId' = nextHistId + 1
        /\ proc' = [proc EXCEPT ![c].pc = "createReturn"]
        /\ UNCHANGED failures
     \/ /\ failures < MaxFailures
        /\ failures' = failures + 1
        /\ nextHistId' = nextHistId + 1
        /\ proc' = [proc EXCEPT ![c].pc = "createCatch"]
        /\ UNCHANGED db
  /\ UNCHANGED <<mode, pageVars, rt, delivered, corrupt, buckets, ls, cache, sinceFetch, orders, currentUser, savedUser, selectedOrder,
                 nextOrderId, calls>>

\* createOrder returns true; handleCreateOrder goes on to fetchOrders(true, true).
CreateReturn(c) ==
  /\ proc[c].pc = "createReturn"
  /\ proc' = [proc EXCEPT ![c].pc = "fetch", ![c].resp = <<>>]
  /\ UNCHANGED <<mode, pageVars, rt, delivered, corrupt, buckets, db, ls, cache, sinceFetch, orders, currentUser, savedUser, selectedOrder,
                 nextOrderId, nextHistId, calls, failures>>

\* createOrder's catch: the optimistic order leaves the cache, false is returned.
CreateCatch(c) ==
  /\ proc[c].pc = "createCatch"
  /\ LET NotIt(o) == o.id # proc[c].arg[1].id
     IN cache' = [cache EXCEPT ![c] = Filter(cache[c], NotIt)]
  /\ proc' = [proc EXCEPT ![c] = Idle]
  /\ UNCHANGED <<mode, pageVars, rt, delivered, corrupt, buckets, db, ls, sinceFetch, orders, currentUser, savedUser, selectedOrder,
                 nextOrderId, nextHistId, calls, failures>>

(* ------------------------------- Init ---------------------------------- *)
EmptyDb ==
  [orders |-> [i \in OrderIds |-> <<>>],
   products |-> [i \in OrderIds |-> <<>>],
   missing_products |-> [i \in OrderIds |-> <<>>],
   returned_products |-> [i \in OrderIds |-> <<>>],
   order_history |-> [i \in OrderIds |-> {}]]

\* The slot a client reads its session user from: tabs of one browser (local mode)
\* share localStorage, remote clients are separate devices.
Slot(c) == IF mode = "local" THEN "c1" ELSE c

\* The session users an earlier run left in the "currentUser" slots.
\* No slot of localStorage holds text that JSON.parse rejects.
NoCorrupt == [orders |-> FALSE, currentUser |-> [c \in Clients |-> FALSE]]

UserSeeds ==
  {[c1 |-> <<>>, c2 |-> <<DEFAULT_USERS[2]>>],
   [c1 |-> <<DEFAULT_USERS[2]>>, c2 |-> <<DEFAULT_USERS[3]>>]}

\* What an earlier session left in the store: nothing, or order 1, created by the
\* coordinator with one line item and one history entry, still being picked or
\* already delivered and unpaid.
SeedData == [products |-> <<[id |-> "p1", quantity |-> 2]>>, totalAmount |-> <<>>]

SeedStatuses == {"en_armado", "entregado"}

SeedDb(st) ==
  [EmptyDb EXCEPT !.orders[1] = <<[InsertedOrderRow(SeedData) EXCEPT !.status = st]>>,
                  !.products[1] = InsertedProductRows(SeedData),
                  !.order_history[1] = {InsertedHistoryRow(DEFAULT_USERS[1], 1)}]

SeedLs(st) == <<(<<[OptimisticOrder(SeedData, DEFAULT_USERS[1], 1, 1) EXCEPT !.status = st]>>)>>

Init ==
  /\ mode \in Modes
  /\ \/ db = EmptyDb /\ ls = <<>> /\ calls = 0
     \/ \E st \in SeedStatuses :
          /\ db = IF mode = "remote" THEN SeedDb(st) ELSE EmptyDb
          /\ ls = IF mode = "local" THEN SeedLs(st) ELSE <<>>
          /\ calls = IF st = "en_armado" THEN 0 ELSE MaxCalls - 1
  /\ cache = [c \in Clients |-> <<>>]
  /\ sinceFetch = [c \in Clients |-> CACHE_MS]
  /\ orders = [c \in Clients |-> <<>>]
  /\ buckets = [c \in Clients |-> Categorize(<<>>)]
  /\ currentUser = [c \in Clients |-> <<>>]
  /\ selectedOrder = [c \in Clients |-> <<>>]
  /\ savedUser \in UserSeeds
  /\ proc = [c \in Clients |-> Idle]
  /\ nextOrderId = 2
  /\ nextHistId = 2
  /\ failures = 0
  /\ rt = [c \in Clients |-> <<>>]
  /\ delivered = 0
  /\ InitPage
  /\ corrupt = NoCorrupt

(* ------------------------- working flags ------------------------------- *)
SetClaim(o, userName) == [o EXCEPT !.currentlyWorkingBy = userName, !.workingStartTime = "T"]

ClearClaim(o) == [o EXCEPT !.currentlyWorkingBy = Undef, !.workingStartTime = Undef]

\* ordersCache.map((o) => (o.id === orderId ? f(o) : o))
MapOrder(list, orderId, F(_)) ==
  [i \in 1..Len(list) |-> IF list[i].id = orderId THEN F(list[i]) ELSE list[i]]

\* list[i] = f(list[i]) for i = findIndex(id), when the id is found.
PatchFirst(list, orderId, F(_)) ==
  IF FindIndex(list, orderId) = 0 THEN list
  ELSE [list EXCEPT ![FindIndex(list, orderId)] = F(@)]

\* setWorkingOnOrder up to its await (the caller has checked the role is "armador"):
\* the claim goes into the cache, then into the local slot or the `orders` row.
\* While the call is in flight `resp` remembers the cache it found.
SetWorkingOnOrderCall(c, q, orderId, userName) ==
  LET Claim(o) == SetClaim(o, userName)
      p == [q EXCEPT !.resp = <<cache[c]>>]
  IN
  /\ cache' = [cache EXCEPT ![c] = MapOrder(cache[c], orderId, Claim)]
  /\ \/ /\ useLocalStorage /\ ~corrupt.orders
        /\ ls' = IF ls # <<>> /\ FindIndex(ls[1], orderId) # 0
                 THEN <<PatchFirst(ls[1], orderId, Claim)>> ELSE ls
        /\ proc' = [proc EXCEPT ![c] = [p EXCEPT !.pc = "setwReturn"]]
        /\ UNCHANGED <<db, failures>>
     \/ /\ useLocalStorage /\ corrupt.orders
        /\ proc' = [proc EXCEPT ![c] = [p EXCEPT !.pc = "setwCatch"]]
        /\ UNCHANGED <<db, ls, failures>>
     \/ /\ ~useLocalStorage
        /\ db' = IF db.orders[orderId] = <<>> THEN db
                 ELSE [db EXCEPT !.orders[orderId][1].currently_working_by = userName,
                                 !.orders[orderId][1].working_start_time = "T"]
        /\ proc' = [proc EXCEPT ![c] = [p EXCEPT !.pc = "setwReturn"]]
        /\ UNCHANGED <<ls, failures>>
     \/ /\ ~useLocalStorage /\ failures < MaxFailures
        /\ failures' = failures + 1
        /\ proc' = [proc EXCEPT ![c] = [p EXCEPT !.pc = "setwCatch"]]
        /\ UNCHANGED <<db, ls>>

\* A variant of ClaimsOnOpen that does not look at the claim the order carries.
ClaimsOnOpenAnyway(order, user) ==
  user.role = "armador" /\ order.status = "en_armado"

\* The test of handleOrderSelect: the user opening the order will claim it.
ClaimsOnOpen(order, user) ==
  user.role = "armador" /\ order.status = "en_armado" /\ ~Truthy(order.currentlyWorkingBy)

canUserWorkOnOrder(order, user) ==
  IF user.role = "vale" THEN TRUE
  ELSE IF Truthy(order.currentlyWorkingBy) /\ order.currentlyWorkingBy # user.name THEN FALSE
  ELSE TRUE

\* handleOrderSelect: an operator opening an unclaimed en_armado order claims it and
\* re-fetches; anyone else just opens the order.
HandleOrderSelect(c, i) ==
  /\ proc[c].h = "idle" /\ currentUser[c] # <<>>
  /\ i \in 1..Len(orders[c])
  /\ LET order == orders[c][i]
         user == currentUser[c][1]
     IN IF ClaimsOnOpen(order, user)
        THEN /\ MayWrite(c)
             /\ calls' = calls + 1
             /\ SetWorkingOnOrderCall(c, [Idle EXCEPT !.h = "select", !.arg = <<order>>,
                                                      !.user = <<user>>, !.force = TRUE,
                                                      !.prio = TRUE],
                                      order.id, user.name)
             /\ UNCHANGED selectedOrder
        ELSE /\ selectedOrder[c] # <<order>>
             /\ selectedOrder' = [selectedOrder EXCEPT ![c] = <<order>>]
             /\ UNCHANGED <<db, ls, cache, proc, calls, failures>>
  /\ UNCHANGED <<mode, pageVars, rt, delivered, corrupt, buckets, sinceFetch, orders, currentUser, savedUser,
                 nextOrderId, nextHistId>>

\* setWorkingOnOrder returns true; handleOrderSelect goes on to fetchOrders(true, true),
\* onSetWorking is done.
SetWorkingReturn(c) ==
  /\ proc[c].pc = "setwReturn"
  /\ proc' = IF proc[c].h = "setw" THEN [proc EXCEPT ![c] = Idle]
             ELSE [proc EXCEPT ![c].pc = "fetch", ![c].resp = <<>>]
  /\ UNCHANGED <<mode, pageVars, rt, delivered, corrupt, buckets, db, ls, cache, sinceFetch, orders, currentUser, savedUser,
                 selectedOrder, nextOrderId, nextHistId, calls, failures>>

\* setWorkingOnOrder's catch: the cached order loses its claim, false is returned
\* (handleOrderSelect ignores it and goes on to fetch, onSetWorking is done).
SetWorkingCatch(c) ==
  /\ proc[c].pc = "setwCatch"
  /\ cache' = [cache EXCEPT ![c] = MapOrder(cache[c], proc[c].arg[1].id, ClearClaim)]
  /\ proc' = IF proc[c].h = "setw" THEN [proc EXCEPT ![c] = Idle]
             ELSE [proc EXCEPT ![c].pc = "fetch", ![c].resp = <<>>]
  /\ UNCHANGED <<mode, pageVars, rt, delivered, corrupt, buckets, db, ls, sinceFetch, orders, currentUser, savedUser,
                 selectedOrder, nextOrderId, nextHistId, calls, failures>>

\* clearWorkingOnOrder(orderId, userName, userRole) up to its await.
ClearWorkingOnOrderCall(c, p, orderId, userName, userRole) ==
  IF Truthy(userRole) /\ userRole # "armador"
  THEN /\ proc' = [proc EXCEPT ![c] = [p EXCEPT !.pc = "clearwReturn"]]
       /\ UNCHANGED <<db, ls, cache, failures>>
  ELSE /\ cache' = [cache EXCEPT ![c] = MapOrder(cache[c], orderId, ClearClaim)]
       /\ \/ /\ useLocalStorage /\ corrupt.orders
             /\ proc' = [proc EXCEPT ![c] = [p EXCEPT !.pc = "clearwReturn", !.ok = FALSE]]
             /\ UNCHANGED <<db, ls, failures>>
          \/ /\ useLocalStorage /\ ~corrupt.orders
             /\ ls' = IF /\ ls # <<>> /\ FindIndex(ls[1], orderId) # 0
                         /\ \/ ~Truthy(userName)
                            \/ ls[1][FindIndex(ls[1], orderId)].currentlyWorkingBy = userName
                      THEN <<PatchFirst(ls[1], orderId, ClearClaim)>> ELSE ls
             /\ proc' = [proc EXCEPT ![c] = [p EXCEPT !.pc = "clearwReturn"]]
             /\ UNCHANGED <<db, failures>>
          \/ /\ ~useLocalStorage
             /\ db' = IF db.orders[orderId] = <<>> THEN db
                      ELSE [db EXCEPT !.orders[orderId][1].currently_working_by = Null,
                                      !.orders[orderId][1].working_start_time = Null]
             /\ proc' = [proc EXCEPT ![c] = [p EXCEPT !.pc = "clearwReturn"]]
             /\ UNCHANGED <<ls, failures>>
          \/ /\ ~useLocalStorage /\ failures < MaxFailures
             /\ failures' = failures + 1
             /\ proc' = [proc EXCEPT ![c] = [p EXCEPT !.pc = "clearwReturn", !.ok = FALSE]]
             /\ UNCHANGED <<db, ls>>

\* OrderDetail onClose: the claimant of the selected snapshot releases the claim and
\* re-fetches; then the detail view closes.
OnClose(c) ==
  /\ proc[c].h = "idle" /\ currentUser[c] # <<>> /\ selectedOrder[c] # <<>>
  /\ LET sel == selectedOrder[c][1]
         user == currentUser[c][1]
     IN IF sel.currentlyWorkingBy = user.name
        THEN /\ MayWrite(c)
             /\ calls' = calls + 1
             /\ ClearWorkingOnOrderCall(c, [Idle EXCEPT !.h = "close", !.arg = <<sel>>,
                                                        !.user = <<user>>, !.force = TRUE,
                                                        !.prio = TRUE],
                                        sel.id, user.name, user.role)
             /\ UNCHANGED selectedOrder
        ELSE /\ selectedOrder' = [selectedOrder EXCEPT ![c] = <<>>]
             /\ UNCHANGED <<db, ls, cache, proc, calls, failures>>
  /\ UNCHANGED <<mode, pageVars, rt, delivered, corrupt, buckets, sinceFetch, orders, currentUser, savedUser,
                 nextOrderId, nextHistId>>

\* OrderDetail's onClearWorking: clearWorkingOnOrder for the order the detail view
\* shows, on behalf of the session user; nothing follows it.
OnClearWorking(c) ==
  /\ MayWrite(c) /\ selectedOrder[c] # <<>>
  /\ calls' = calls + 1
  /\ LET sel == selectedOrder[c][1]
         user == currentUser[c][1]
     IN ClearWorkingOnOrderCall(c, [Idle EXCEPT !.h = "clear", !.arg = <<sel>>,
                                                !.user = <<user>>],
                                sel.id, user.name, user.role)
  /\ UNCHANGED <<mode, pageVars, rt, delivered, corrupt, buckets, sinceFetch, orders, currentUser, savedUser,
                 selectedOrder, nextOrderId, nextHistId>>

\* A variant of IsOperator that lets every role through.
IsOperatorAnyRole(userRole) == TRUE

\* The first line of setWorkingOnOrder: `if (userRole !== "armador") return true`
\* leaves when this is false.
IsOperator(userRole) == userRole = "armador"

\* OrderDetail's onSetWorking: setWorkingOnOrder for the order the detail view shows,
\* with the session user's name and role; for a role other than "armador" the call
\* returns true at once, nothing written.
OnSetWorking(c) ==
  /\ MayWrite(c) /\ selectedOrder[c] # <<>>
  /\ calls' = calls + 1
  /\ LET sel == selectedOrder[c][1]
         user == currentUser[c][1]
     IN IF ~IsOperator(user.role)
        THEN UNCHANGED <<db, ls, cache, proc, failures>>
        ELSE SetWorkingOnOrderCall(c, [Idle EXCEPT !.h = "setw", !.arg = <<sel>>,
                                                   !.user = <<user>>],
                                   sel.id, user.name)
  /\ UNCHANGED <<mode, pageVars, rt, delivered, corrupt, buckets, sinceFetch, orders, currentUser, savedUser,
                 selectedOrder, nextOrderId, nextHistId>>

\* clearWorkingOnOrder returns (true or false, no caller looks); onClose goes on to
\* fetchOrders(true, true), onClearWorking is done.
ClearWorkingReturn(c) ==
  /\ proc[c].pc = "clearwReturn"
  /\ proc' = IF proc[c].h = "clear" THEN [proc EXCEPT ![c] = Idle]
             ELSE [proc EXCEPT ![c].pc = "fetch", ![c].ok = TRUE]
  /\ UNCHANGED <<mode, pageVars, rt, delivered, corrupt, buckets, db, ls, cache, sinceFetch, orders, currentUser, savedUser,
                 selectedOrder, nextOrderId, nextHistId, calls, failures>>

(* ---------------------------- updateOrder ------------------------------ *)
\* A key whose value is undefined is left out of the request body (JSON.stringify),
\* so the column keeps what it holds; null is sent and stored.
SentOr(old, new) == IF new = Undef THEN old ELSE new

SentNumOr(old, new) == IF new = <<>> THEN old ELSE new

\* The `orders` row after updateOrder's first request.  statusHist remembers the
\* history entry that came with the last change of status (0: none).
UpdatedOrderRow(row, order) ==
  [status |-> order.status,
   is_paid |-> order.isPaid,
   currently_working_by |-> SentOr(row.currently_working_by, order.currentlyWorkingBy),
   working_start_time |-> SentOr(row.working_start_time, order.workingStartTime),
   total_amount |-> SentNumOr(row.total_amount, order.totalAmount),
   statusHist |-> IF order.status # row.status THEN order.statusHist ELSE row.statusHist]

toProductRow(p) ==
  [id |-> p.id, quantity |-> p.quantity, original_quantity |-> p.originalQuantity,
   is_checked |-> p.isChecked]

toMissingRow(m) == [product_id |-> m.productId, quantity |-> m.quantity]

toReturnedRow(r) == [product_id |-> r.productId, quantity |-> r.quantity, reason |-> r.reason]

toHistoryRow(h) == [id |-> h.id, user_name |-> h.user, created_at |-> h.timestamp]

\* order.history.filter((h) => !existingIds.has(h.id)), as rows.
NewHistoryRows(order, existingIds) ==
  {toHistoryRow(order.history[i]) : i \in {j \in 1..Len(order.history) :
                                             order.history[j].id \notin existingIds}}

\* ordersCache[i] = order for i = findIndex(order.id), when i >= 0.
ReplaceOrder(list, order) ==
  IF FindIndex(list, order.id) = 0 THEN list
  ELSE [list EXCEPT ![FindIndex(list, order.id)] = order]

\* handleUpdateOrder -> updateOrder: the cache entry is replaced, then the local slot
\* entry is replaced or the `orders` row is updated.
HandleUpdateOrder(c, order) ==
  /\ MayWrite(c)
  /\ calls' = calls + 1
  /\ nextHistId' = IF order.history # selectedOrder[c][1].history
                   THEN nextHistId + 1 ELSE nextHistId
  /\ cache' = [cache EXCEPT ![c] = ReplaceOrder(cache[c], order)]
  /\ LET p == [Idle EXCEPT !.h = "update", !.arg = <<order>>, !.user = currentUser[c],
                           !.force = TRUE, !.prio = TRUE]
     IN \/ /\ useLocalStorage /\ ~corrupt.orders
           /\ ls' = IF ls = <<>> THEN ls ELSE <<ReplaceOrder(ls[1], order)>>
           /\ proc' = [proc EXCEPT ![c] = [p EXCEPT !.pc = "updReturn"]]
           /\ UNCHANGED <<db, failures>>
        \/ /\ useLocalStorage /\ corrupt.orders
           /\ proc' = [proc EXCEPT ![c] = [p EXCEPT !.pc = "updCatch"]]
           /\ UNCHANGED <<db, ls, failures>>
        \/ /\ ~useLocalStorage
           /\ db' = IF db.orders[order.id] = <<>> THEN db
                    ELSE [db EXCEPT !.orders[order.id] =
                                       <<UpdatedOrderRow(db.orders[order.id][1], order)>>]
           /\ proc' = [proc EXCEPT ![c] = [p EXCEPT !.pc = "updProdDel"]]
           /\ UNCHANGED <<ls, failures>>
        \/ /\ ~useLocalStorage /\ failures < MaxFailures
           /\ failures' = failures + 1
           /\ proc' = [proc EXCEPT ![c] = [p EXCEPT !.pc = "updCatch"]]
           /\ UNCHANGED <<db, ls>>
  /\ UNCHANGED <<mode, pageVars, rt, delivered, corrupt, buckets, sinceFetch, orders, currentUser, savedUser, selectedOrder,
                 nextOrderId>>

\* One of updateOrder's three delete-then-insert rounds: the delete (its error is not
\* looked at), which leads to the insert when the order has rows for the table.
UpdDelete(c, pcHere, table, hasRows, pcInsert, pcNext) ==
  /\ proc[c].pc = pcHere
  /\ db' = [db EXCEPT ![table][proc[c].arg[1].id] = <<>>]
  /\ proc' = [proc EXCEPT ![c].pc = IF hasRows THEN pcInsert ELSE pcNext]
  /\ UNCHANGED <<mode, pageVars, rt, delivered, corrupt, buckets, ls, cache, sinceFetch, orders, currentUser, savedUser,
                 selectedOrder, nextOrderId, nextHistId, calls, failures>>

\* The insert of a round: the rows go in, or the request fails and updateOrder throws.
UpdInsert(c, pcHere, table, rows, pcNext) ==
  /\ proc[c].pc = pcHere
  /\ \/ /\ db' = [db EXCEPT ![table][proc[c].arg[1].id] = @ \o rows]
        /\ proc' = [proc EXCEPT ![c].pc = pcNext]
        /\ UNCHANGED failures
     \/ /\ failures < MaxFailures
        /\ failures' = failures + 1
        /\ proc' = [proc EXCEPT ![c].pc = "updCatch"]
        /\ UNCHANGED db
  /\ UNCHANGED <<mode, pageVars, rt, delivered, corrupt, buckets, ls, cache, sinceFetch, orders, currentUser, savedUser,
                 selectedOrder, nextOrderId, nextHistId, calls>>

UpdProductsDelete(c) ==
  UpdDelete(c, "updProdDel", "products", proc[c].arg[1].products # <<>>,
            "updProdIns", "updMissDel")

UpdProductsInsert(c) ==
  UpdInsert(c, "updProdIns", "products", Map(proc[c].arg[1].products, toProductRow),
            "updMissDel")

UpdMissingDelete(c) ==
  UpdDelete(c, "updMissDel", "missing_products", proc[c].arg[1].missingProducts # <<>>,
            "updMissIns", "updRetDel")

UpdMissingInsert(c) ==
  UpdInsert(c, "updMissIns", "missing_products",
            Map(proc[c].arg[1].missingProducts, toMissingRow), "updRetDel")

UpdReturnedDelete(c) ==
  UpdDelete(c, "updRetDel", "returned_products", proc[c].arg[1].returnedProducts # <<>>,
            "updRetIns", "updHistSel")

UpdReturnedInsert(c) ==
  UpdInsert(c, "updRetIns", "returned_products",
            Map(proc[c].arg[1].returnedProducts, toReturnedRow), "updHistSel")

\* updateOrder: the select of the history ids the backend holds for the order.
UpdHistorySelect(c) ==
  /\ proc[c].pc = "updHistSel"
  /\ LET existingIds == {h.id : h \in db.order_history[proc[c].arg[1].id]}
     IN proc' = [proc EXCEPT ![c].resp = <<existingIds>>,
                             ![c].pc = IF NewHistoryRows(proc[c].arg[1], existingIds) # {}
                                       THEN "updHistIns" ELSE "updReturn"]
  /\ UNCHANGED <<mode, pageVars, rt, delivered, corrupt, buckets, db, ls, cache, sinceFetch, orders, currentUser, savedUser,
                 selectedOrder, nextOrderId, nextHistId, calls, failures>>

\* updateOrder: the insert of the history entries whose id the backend did not hold.
UpdHistoryInsert(c) ==
  /\ proc[c].pc = "updHistIns"
  /\ \/ /\ db' = [db EXCEPT !.order_history[proc[c].arg[1].id] =
                                @ \cup NewHistoryRows(proc[c].arg[1], proc[c].resp[1])]
        /\ proc' = [proc EXCEPT ![c].pc = "updReturn"]
        /\ UNCHANGED failures
     \/ /\ failures < MaxFailures
        /\ failures' = failures + 1
        /\ proc' = [proc EXCEPT ![c].pc = "updCatch"]
        /\ UNCHANGED db
  /\ UNCHANGED <<mode, pageVars, rt, delivered, corrupt, buckets, ls, cache, sinceFetch, orders, currentUser, savedUser,
                 selectedOrder, nextOrderId, nextHistId, calls>>

\* updateOrder returns true; handleUpdateOrder goes on to fetchOrders(true, true).
UpdReturn(c) ==
  /\ proc[c].pc = "updReturn"
  /\ proc' = [proc EXCEPT ![c].pc = "fetch", ![c].resp = <<>>]
  /\ UNCHANGED <<mode, pageVars, rt, delivered, corrupt, buckets, db, ls, cache, sinceFetch, orders, currentUser, savedUser,
                 selectedOrder, nextOrderId, nextHistId, calls, failures>>

\* A variant of UpdCatch that takes the order out of the cache, as createOrder's does.
UpdCatchDropsOrder(c) ==
  /\ proc[c].pc = "updCatch"
  /\ LET NotIt(o) == o.id # proc[c].arg[1].id
     IN cache' = [cache EXCEPT ![c] = Filter(cache[c], NotIt)]
  /\ proc' = [proc EXCEPT ![c] = Idle]
  /\ UNCHANGED <<mode, pageVars, rt, delivered, corrupt, buckets, db, ls, sinceFetch, orders, currentUser,
                 savedUser, selectedOrder, nextOrderId, nextHistId, calls, failures>>

\* updateOrder's catch: false is returned, the cache keeps the optimistic order.
UpdCatch(c) ==
  /\ proc[c].pc = "updCatch"
  /\ proc' = [proc EXCEPT ![c] = Idle]
  /\ UNCHANGED <<mode, pageVars, rt, delivered, corrupt, buckets, db, ls, cache, sinceFetch, orders, currentUser, savedUser,
                 selectedOrder, nextOrderId, nextHistId, calls, failures>>

(* ------------------------------ page: load ----------------------------- *)
\* getCurrentUser: the saved user, or null when the slot is absent or does not parse
\* (the catch removes the slot; load then saves the default user into it).
getCurrentUser(slot) == IF corrupt.currentUser[slot] THEN <<>> ELSE savedUser[slot]

\* The initial effect: users, the session user (the saved one, else the first of the
\* list: no user is named "Vale"), then fetchOrders(false, true) followed by
\* fetchOrders(false, false).
Load(c) ==
  /\ c \in mounted
  /\ proc[c].h = "idle" /\ currentUser[c] = <<>>
  /\ IF getCurrentUser(Slot(c)) # <<>>
     THEN /\ currentUser' = [currentUser EXCEPT ![c] = savedUser[Slot(c)]]
          /\ UNCHANGED savedUser
     ELSE /\ currentUser' = [currentUser EXCEPT ![c] = <<DEFAULT_USERS[1]>>]
          /\ savedUser' = [savedUser EXCEPT ![Slot(c)] = <<DEFAULT_USERS[1]>>]
  /\ corrupt' = [corrupt EXCEPT !.currentUser[Slot(c)] = FALSE]
  /\ proc' = [proc EXCEPT ![c] = [Idle EXCEPT !.h = "load", !.pc = "fetch", !.force = FALSE,
                                              !.prio = TRUE, !.stage = 1]]
  /\ UNCHANGED <<mode, pageVars, rt, delivered, buckets, db, ls, cache, sinceFetch, orders, selectedOrder,
                 nextOrderId, nextHistId, calls, failures>>

\* handleRefresh: fetchOrders(true, true) then fetchOrders(true, false).
HandleRefresh(c) ==
  /\ proc[c].h = "idle" /\ currentUser[c] # <<>> /\ calls < MaxCalls
  /\ calls' = calls + 1
  /\ proc' = [proc EXCEPT ![c] = [Idle EXCEPT !.h = "refresh", !.pc = "fetch", !.force = TRUE,
                                              !.prio = TRUE, !.stage = 1]]
  /\ UNCHANGED <<mode, pageVars, rt, delivered, corrupt, buckets, db, ls, cache, sinceFetch, orders, currentUser, savedUser,
                 selectedOrder, nextOrderId, nextHistId, failures>>

\* handleUserChange: the session user becomes the selected user of the list and is saved.
HandleUserChange(c, u) ==
  /\ proc[c].h = "idle" /\ currentUser[c] # <<>> /\ calls < MaxCalls
  /\ currentUser[c] # <<u>>
  /\ calls' = calls + 1
  /\ currentUser' = [currentUser EXCEPT ![c] = <<u>>]
  /\ savedUser' = [savedUser EXCEPT ![Slot(c)] = <<u>>]
  /\ corrupt' = [corrupt EXCEPT !.currentUser[Slot(c)] = FALSE]
  /\ UNCHANGED <<mode, pageVars, rt, delivered, buckets, db, ls, cache, sinceFetch, orders, selectedOrder, proc,
                 nextOrderId, nextHistId, failures>>

\* Time passes: Date.now() moves on by CACHE_MS, which closes every open cache window
\* and ages the `now` a fetch in flight took at its call.  Time is read only by the
\* window test of fetchOrders, so it is advanced only when a call is about to take
\* that test with its window open (the test then goes either way).
Tick ==
  /\ \E c \in Clients : proc[c].pc = "fetch" /\ CacheWindowHit(c)
  /\ sinceFetch' = [c \in Clients |-> CACHE_MS]
  /\ proc' = [c \in Clients |->
               IF proc[c].pc = "fetchResp" THEN [proc[c] EXCEPT !.at = CACHE_MS] ELSE proc[c]]
  /\ rt' = [c \in Clients |-> [k \in 1..Len(rt[c]) |-> [rt[c][k] EXCEPT !.at = CACHE_MS]]]
  /\ UNCHANGED <<mode, pageVars, delivered, corrupt, buckets, db, ls, cache, orders, currentUser, savedUser,
                 selectedOrder, nextOrderId, nextHistId, calls, failures>>

(* ------------------------------ inputs --------------------------------- *)
\* The order forms the dialog submits: one line item of quantity 2, no total.
CreateInputs ==
  {[products |-> <<[id |-> "p1", quantity |-> q]>>, totalAmount |-> <<>>] : q \in {2}}

NextStatus(st) ==
  IF st = "pagado" THEN st
  ELSE OrderStatus[1 + CHOOSE i \in 1..Len(OrderStatus) : OrderStatus[i] = st]

\* The order the detail view hands to onUpdateOrder: the selected order with a new
\* status and paid flag, the claim kept or dropped, and, when the status changes, one
\* more history entry by the acting user.
EditOrder(base, user, st, paid, drop, histId) ==
  [base EXCEPT
     !.status = st,
     !.isPaid = paid,
     !.currentlyWorkingBy = IF drop THEN Undef ELSE @,
     !.workingStartTime = IF drop THEN Undef ELSE @,
     !.history = IF st # base.status
                 THEN @ \o <<[id |-> histId, user |-> user.name, timestamp |-> histId]>>
                 ELSE @,
     !.statusHist = IF st # base.status THEN histId ELSE @]

\* The selected order with a shortage recorded against its first line item (one unit
\* less picked, one missing item), or with a return recorded against it.
ShortageOrder(base) ==
  [base EXCEPT
     !.products = [i \in 1..Len(@) |->
                     IF i = 1 THEN [@[i] EXCEPT !.quantity = @ - 1, !.isChecked = TRUE]
                     ELSE @[i]],
     !.missingProducts = @ \o <<[productId |-> base.products[1].id, quantity |-> 1]>>]

ReturnOrder(base) ==
  [base EXCEPT
     !.returnedProducts =
        @ \o <<[productId |-> base.products[1].id, quantity |-> 1, reason |-> "roto"]>>]

UpdateInputs(c) ==
  IF selectedOrder[c] = <<>> \/ currentUser[c] = <<>> \/ nextHistId > MaxHist THEN {}
  ELSE LET base == selectedOrder[c][1] IN
       {EditOrder(base, currentUser[c][1], st, paid, FALSE, nextHistId) :
          st \in {base.status, NextStatus(base.status), "pagado"},
          paid \in {base.isPaid, TRUE}}
       \cup (IF base.products # <<>> /\ base.products[1].quantity > 1
                 /\ base.missingProducts = <<>>
             THEN {ShortageOrder(base)} ELSE {})
       \cup (IF base.products # <<>> /\ base.returnedProducts = <<>>
             THEN {ReturnOrder(base)} ELSE {})

Next ==
  \/ \E c \in Clients : FetchOrdersCall(c)
  \/ \E c \in Clients : FetchOrdersResp(c)
  \/ \E c \in Clients : Load(c)
  \/ \E c \in Clients : \E order \in UpdateInputs(c) : HandleUpdateOrder(c, order)
  \/ \E c \in Clients : UpdProductsDelete(c)
  \/ \E c \in Clients : UpdProductsInsert(c)
  \/ \E c \in Clients : UpdMissingDelete(c)
  \/ \E c \in Clients : UpdMissingInsert(c)
  \/ \E c \in Clients : UpdReturnedDelete(c)
  \/ \E c \in Clients : UpdReturnedInsert(c)
  \/ \E c \in Clients : UpdHistorySelect(c)
  \/ \E c \in Clients : UpdHistoryInsert(c)
  \/ \E c \in Clients : UpdReturn(c)
  \/ \E c \in Clients : UpdCatch(c)
  \/ \E c \in Clients, i \in 1..MaxOrders : HandleOrderSelect(c, i)
  \/ \E c \in Clients : SetWorkingReturn(c)
  \/ \E c \in Clients : SetWorkingCatch(c)
  \/ \E c \in Clients : OnClose(c)
  \/ \E c \in Clients : ClearWorkingReturn(c)
  \/ \E c \in Clients, d \in CreateInputs : HandleCreateOrder(c, d)
  \/ \E c \in Clients : CreateProducts(c)
  \/ \E c \in Clients : CreateHistory(c)
  \/ \E c \in Clients : CreateReturn(c)
  \/ \E c \in Clients : CreateCatch(c)
  \/ \E c \in Clients : HandleRefresh(c)
  \/ \E c \in Clients, u \in Users : HandleUserChange(c, u)
  \/ Tick

Spec == Init /\ [][Next]_vars

(* ------------------------ the categories alone ------------------------- *)
\* An order as the page may hold it: any status, paid or not.
AnyOrder(id, st, paid) ==
  [OptimisticOrder(SeedData, DEFAULT_USERS[1], id, 1) EXCEPT !.status = st, !.isPaid = paid]

AnyOrders(id) == {AnyOrder(id, st, paid) : st \in StatusSet, paid \in BOOLEAN}

AnyOrderLists ==
  {<<>>} \cup {<<a>> : a \in AnyOrders(1)}
         \cup {<<a, b>> : a \in AnyOrders(1), b \in AnyOrders(2)}

\* The page of client c1 holding any list of orders, its render pending.
InitBuckets ==
  /\ mode \in {"remote"}
  /\ db = EmptyDb /\ ls = <<>>
  /\ cache = [c \in Clients |-> <<>>]
  /\ sinceFetch = [c \in Clients |-> CACHE_MS]
  /\ \E list \in AnyOrderLists : orders = [c \in Clients |-> IF c = "c1" THEN list ELSE <<>>]
  /\ buckets = [c \in Clients |-> Categorize(<<>>)]
  /\ currentUser = [c \in Clients |-> <<>>]
  /\ selectedOrder = [c \in Clients |-> <<>>]
  /\ savedUser \in {[c \in Clients |-> <<>>]}
  /\ proc = [c \in Clients |-> [Idle EXCEPT !.h = "render", !.pc = "render"]]
  /\ nextOrderId = 2
  /\ nextHistId = 2
  /\ calls = 0
  /\ failures = 0
  /\ rt = [c \in Clients |-> <<>>]
  /\ delivered = 0
  /\ InitPage
  /\ corrupt = NoCorrupt

\* A render of the page: the three lists are derived from `orders`.
Render(c) ==
  /\ proc[c].pc = "render"
  /\ buckets' = [buckets EXCEPT ![c] = Categorize(orders[c])]
  /\ proc' = [proc EXCEPT ![c] = Idle]
  /\ UNCHANGED <<mode, pageVars, rt, delivered, corrupt, db, ls, cache, sinceFetch, orders, currentUser, selectedOrder,
                 savedUser, nextOrderId, nextHistId, calls, failures>>

NextBuckets == \E c \in Clients : Render(c)

SpecBuckets == InitBuckets /\ [][NextBuckets]_vars

(* ------------------------------ realtime ------------------------------- *)
\* A variant of OnPostgresChange that starts no second callback while one is in flight.
OnPostgresChangeCoalesced(c) ==
  /\ ~useLocalStorage
  /\ delivered < MaxNotifs
  /\ delivered' = delivered + 1
  /\ cache' = [cache EXCEPT ![c] = <<>>]
  /\ rt' = IF rt[c] # <<>> THEN rt
           ELSE [rt EXCEPT ![c] = Append(@, [ok |-> TRUE, resp |-> QueryOrders(TRUE),
                                             at |-> 0, before |-> cache[c]])]
  /\ UNCHANGED <<mode, pageVars, corrupt, buckets, db, ls, sinceFetch, orders, currentUser, savedUser,
                 selectedOrder, proc, nextOrderId, nextHistId, calls, failures>>

\* A postgres_changes event of one of the five tables reaches client c: the handler
\* of useRealtimeOrders empties ordersCache and calls the page's callback, which runs
\* to the await inside its fetchOrders(true, true).  `before` remembers the cache the
\* event found.
OnPostgresChange(c) ==
  /\ ~useLocalStorage /\ c \in channels
  /\ delivered < MaxNotifs
  /\ delivered' = delivered + 1
  /\ cache' = [cache EXCEPT ![c] = <<>>]
  /\ \/ /\ rt' = [rt EXCEPT ![c] = Append(@, [ok |-> TRUE, resp |-> QueryOrders(TRUE),
                                               at |-> 0, before |-> cache[c]])]
        /\ UNCHANGED failures
     \/ /\ failures < MaxFailures
        /\ failures' = failures + 1
        /\ rt' = [rt EXCEPT ![c] = Append(@, [ok |-> FALSE, resp |-> <<>>,
                                               at |-> 0, before |-> cache[c]])]
  /\ UNCHANGED <<mode, pageVars, corrupt, buckets, db, ls, sinceFetch, orders, currentUser, savedUser,
                 selectedOrder, proc, nextOrderId, nextHistId, calls>>

\* The callback's fetchOrders(true, true) after its await, then setOrders(fresh).
RealtimeFetchResp(c, k) ==
  /\ k \in 1..Len(rt[c])
  /\ LET t == rt[c][k]
         fresh == IF t.ok THEN MergeFetched(cache[c], Map(t.resp, mapOrderRow), TRUE)
                  ELSE cache[c]
     IN /\ cache' = [cache EXCEPT ![c] = fresh]
        /\ sinceFetch' = IF t.ok THEN [sinceFetch EXCEPT ![c] = t.at] ELSE sinceFetch
        /\ orders' = [orders EXCEPT ![c] = fresh]
        /\ buckets' = [buckets EXCEPT ![c] = Categorize(fresh)]
  /\ rt' = [rt EXCEPT ![c] = RemoveAt(@, k)]
  /\ UNCHANGED <<mode, pageVars, delivered, corrupt, db, ls, currentUser, savedUser, selectedOrder, proc,
                 nextOrderId, nextHistId, calls, failures>>

(* ----------------------------- deleteOrder ----------------------------- *)
\* handleDeleteOrder -> deleteOrder up to its await, from the delete button of a card
\* the coordinator sees: the cache is copied, the order leaves the cache, then the
\* local slot is rewritten without it or the `orders` row is deleted (the rows of the
\* other tables are reached only through that row).
HandleDeleteOrder(c, i) ==
  /\ MayWrite(c)
  /\ currentUser[c][1].role = "vale"
  /\ i \in 1..Len(orders[c])
  /\ IsActive(orders[c][i]) \/ IsPendingPayment(orders[c][i]) \/ IsCompleted(orders[c][i])
  /\ calls' = calls + 1
  /\ LET orderId == orders[c][i].id
         NotIt(o) == o.id # orderId
         prev == cache[c]
         p == [Idle EXCEPT !.h = "delete", !.arg = <<orders[c][i], prev>>,
                           !.user = currentUser[c], !.force = TRUE, !.prio = TRUE]
     IN /\ cache' = [cache EXCEPT ![c] = Filter(cache[c], NotIt)]
        /\ \/ /\ useLocalStorage /\ ~corrupt.orders
              /\ ls' = <<Filter(IF ls = <<>> THEN <<>> ELSE ls[1], NotIt)>>
              /\ proc' = [proc EXCEPT ![c] = [p EXCEPT !.pc = "deleteReturn"]]
              /\ UNCHANGED <<db, failures>>
           \/ /\ useLocalStorage /\ corrupt.orders
              /\ proc' = [proc EXCEPT ![c] = [p EXCEPT !.pc = "deleteCatch"]]
              /\ UNCHANGED <<db, ls, failures>>
           \/ /\ ~useLocalStorage
              /\ db' = [db EXCEPT !.orders[orderId] = <<>>]
              /\ proc' = [proc EXCEPT ![c] = [p EXCEPT !.pc = "deleteReturn"]]
              /\ UNCHANGED <<ls, failures>>
           \/ /\ ~useLocalStorage /\ failures < MaxFailures
              /\ failures' = failures + 1
              /\ proc' = [proc EXCEPT ![c] = [p EXCEPT !.pc = "deleteCatch"]]
              /\ UNCHANGED <<db, ls>>
  /\ UNCHANGED <<mode, pageVars, rt, delivered, corrupt, buckets, sinceFetch, orders, currentUser, savedUser,
                 selectedOrder, nextOrderId, nextHistId>>

\* deleteOrder returns true; handleDeleteOrder goes on to fetchOrders(true, true).
DeleteReturn(c) ==
  /\ proc[c].pc = "deleteReturn"
  /\ proc' = [proc EXCEPT ![c].pc = "fetch"]
  /\ UNCHANGED <<mode, pageVars, rt, delivered, corrupt, buckets, db, ls, cache, sinceFetch, orders, currentUser,
                 savedUser, selectedOrder, nextOrderId, nextHistId, calls, failures>>

\* A variant of DeleteCatch that leaves the cache as the failed delete finds it.
DeleteCatchNoRestore(c) ==
  /\ proc[c].pc = "deleteCatch"
  /\ proc' = [proc EXCEPT ![c] = Idle]
  /\ UNCHANGED <<mode, pageVars, rt, delivered, corrupt, buckets, db, ls, cache, sinceFetch, orders, currentUser,
                 savedUser, selectedOrder, nextOrderId, nextHistId, calls, failures>>

\* deleteOrder's catch: ordersCache = prev, false is returned and handleDeleteOrder
\* reports the error without fetching.
DeleteCatch(c) ==
  /\ proc[c].pc = "deleteCatch"
  /\ cache' = [cache EXCEPT ![c] = proc[c].arg[2]]
  /\ proc' = [proc EXCEPT ![c] = Idle]
  /\ UNCHANGED <<mode, pageVars, rt, delivered, corrupt, buckets, db, ls, sinceFetch, orders, currentUser,
                 savedUser, selectedOrder, nextOrderId, nextHistId, calls, failures>>

(* ------------------ the cache under change notifications ---------------- *)
\* The store an earlier session left: order 1, paid for and closed.
PaidSeedDb == [SeedDb("pagado") EXCEPT !.orders[1][1].is_paid = TRUE]

PaidSeedLs == <<(<<[SeedLs("pagado")[1][1] EXCEPT !.isPaid = TRUE]>>)>>

\* The same store with order 2 on top, created after order 1 and still being picked.
TwoSeedDb ==
  [PaidSeedDb EXCEPT !.orders[2] = <<InsertedOrderRow(SeedData)>>,
                     !.products[2] = InsertedProductRows(SeedData),
                     !.order_history[2] = {InsertedHistoryRow(DEFAULT_USERS[1], 2)}]

TwoSeedLs == <<(<<OptimisticOrder(SeedData, DEFAULT_USERS[1], 2, 2)>> \o PaidSeedLs[1])>>

\* The coordinator on client c1 and operator Camilo on client c2, nothing loaded yet,
\* the store holding order 1 or orders 1 and 2.
InitSync ==
  /\ mode \in Modes
  /\ \/ /\ db = IF mode = "remote" THEN PaidSeedDb ELSE EmptyDb
        /\ ls = IF mode = "local" THEN PaidSeedLs ELSE <<>>
        /\ nextOrderId = 2 /\ nextHistId = 2
     \/ /\ db = IF mode = "remote" THEN TwoSeedDb ELSE EmptyDb
        /\ ls = IF mode = "local" THEN TwoSeedLs ELSE <<>>
        /\ nextOrderId = 3 /\ nextHistId = 3
  /\ cache = [c \in Clients |-> <<>>]
  /\ sinceFetch = [c \in Clients |-> CACHE_MS]
  /\ orders = [c \in Clients |-> <<>>]
  /\ buckets = [c \in Clients |-> Categorize(<<>>)]
  /\ currentUser = [c \in Clients |-> <<>>]
  /\ selectedOrder = [c \in Clients |-> <<>>]
  /\ savedUser = [c1 |-> <<>>, c2 |-> <<DEFAULT_USERS[2]>>]
  /\ proc = [c \in Clients |-> Idle]
  /\ calls = MaxCalls - 1
  /\ failures = 0
  /\ rt = [c \in Clients |-> <<>>]
  /\ delivered = 0
  /\ InitPage
  /\ corrupt = NoCorrupt

NextSync ==
  \/ \E c \in Clients : FetchOrdersCall(c)
  \/ \E c \in Clients : FetchOrdersResp(c)
  \/ \E c \in Clients : Load(c)
  \/ \E c \in Clients, d \in CreateInputs : HandleCreateOrder(c, d)
  \/ \E c \in Clients : CreateProducts(c)
  \/ \E c \in Clients : CreateHistory(c)
  \/ \E c \in Clients : CreateReturn(c)
  \/ \E c \in Clients : CreateCatch(c)
  \/ \E c \in Clients, i \in 1..MaxOrders : HandleDeleteOrder(c, i)
  \/ \E c \in Clients : DeleteReturn(c)
  \/ \E c \in Clients : DeleteCatch(c)
  \/ \E c \in Clients : OnPostgresChange(c)
  \/ \E c \in Clients, k \in 1..MaxNotifs : RealtimeFetchResp(c, k)
  \/ Tick

SpecSync == InitSync /\ [][NextSync]_vars

(* ---------------------- slots that do not parse ------------------------- *)
\* Local mode, the tabs of one browser: the "orders" slot, the "currentUser" slot or
\* both hold text that JSON.parse rejects; a slot that parses holds what an earlier
\* session left (order 1 being picked, operator Camilo).
CorruptSeeds ==
  {[orders |-> o, currentUser |-> [c \in Clients |-> u /\ c = "c1"]] : o, u \in BOOLEAN}
    \ {NoCorrupt}

InitCorrupt ==
  /\ mode = "local"
  /\ corrupt \in CorruptSeeds
  /\ db = EmptyDb
  /\ ls = IF corrupt.orders THEN <<>> ELSE SeedLs("en_armado")
  /\ savedUser = [c \in Clients |->
                    IF c = "c1" /\ ~corrupt.currentUser[c] THEN <<DEFAULT_USERS[2]>> ELSE <<>>]
  /\ cache = [c \in Clients |-> <<>>]
  /\ sinceFetch = [c \in Clients |-> CACHE_MS]
  /\ orders = [c \in Clients |-> <<>>]
  /\ buckets = [c \in Clients |-> Categorize(<<>>)]
  /\ currentUser = [c \in Clients |-> <<>>]
  /\ selectedOrder = [c \in Clients |-> <<>>]
  /\ proc = [c \in Clients |-> Idle]
  /\ nextOrderId = 2
  /\ nextHistId = 2
  /\ calls = 0
  /\ failures = 0
  /\ rt = [c \in Clients |-> <<>>]
  /\ delivered = 0
  /\ InitPage

NextCorrupt ==
  \/ \E c \in Clients : Load(c)
  \/ \E c \in Clients : FetchOrdersCall(c)
  \/ \E c \in Clients : HandleRefresh(c)
  \/ \E c \in Clients, u \in Users : HandleUserChange(c, u)
  \/ \E c \in Clients, d \in CreateInputs : HandleCreateOrder(c, d)
  \/ \E c \in Clients : CreateCatch(c)
  \/ Tick

SpecCorrupt == InitCorrupt /\ [][NextCorrupt]_vars

(* ------------------------- releasing a claim --------------------------- *)
\* Order 1 being picked, as earlier sessions left it: claimed by operator Camilo, or
\* (remote mode) with the header an updateOrder from an unclaimed snapshot leaves on
\* a claimed order: no claimant, the start time still set.
ClaimedSeedDb ==
  [SeedDb("en_armado") EXCEPT !.orders[1][1].currently_working_by = DEFAULT_USERS[2].name,
                              !.orders[1][1].working_start_time = "T"]

LeftoverSeedDb ==
  [SeedDb("en_armado") EXCEPT !.orders[1][1].working_start_time = "T"]

ClaimedSeedLs == <<(<<SetClaim(SeedLs("en_armado")[1][1], DEFAULT_USERS[2].name)>>)>>

\* Order 1 claimed by operator Jesus, who is on neither client.
OtherSeedDb ==
  [SeedDb("en_armado") EXCEPT !.orders[1][1].currently_working_by = DEFAULT_USERS[3].name,
                              !.orders[1][1].working_start_time = "T"]

OtherSeedLs == <<(<<SetClaim(SeedLs("en_armado")[1][1], DEFAULT_USERS[3].name)>>)>>

\* The coordinator on client c1 and operator Camilo on client c2, nothing loaded yet.
InitClear ==
  /\ mode \in Modes
  /\ db \in IF mode = "remote" THEN {ClaimedSeedDb, LeftoverSeedDb, OtherSeedDb} ELSE {EmptyDb}
  /\ ls \in IF mode = "local" THEN {ClaimedSeedLs, OtherSeedLs} ELSE {<<>>}
  /\ cache = [c \in Clients |-> <<>>]
  /\ sinceFetch = [c \in Clients |-> CACHE_MS]
  /\ orders = [c \in Clients |-> <<>>]
  /\ buckets = [c \in Clients |-> Categorize(<<>>)]
  /\ currentUser = [c \in Clients |-> <<>>]
  /\ selectedOrder = [c \in Clients |-> <<>>]
  /\ savedUser = [c1 |-> <<>>, c2 |-> <<DEFAULT_USERS[2]>>]
  /\ proc = [c \in Clients |-> Idle]
  /\ nextOrderId = 2
  /\ nextHistId = 2
  /\ calls = 0
  /\ failures = 0
  /\ rt = [c \in Clients |-> <<>>]
  /\ delivered = 0
  /\ InitPage
  /\ corrupt = NoCorrupt

NextClear ==
  \/ \E c \in Clients : Load(c)
  \/ \E c \in Clients : FetchOrdersCall(c)
  \/ \E c \in Clients : FetchOrdersResp(c)
  \/ \E c \in Clients, i \in 1..MaxOrders : HandleOrderSelect(c, i)
  \/ \E c \in Clients : SetWorkingReturn(c)
  \/ \E c \in Clients : SetWorkingCatch(c)
  \/ \E c \in Clients : OnClose(c)
  \/ \E c \in Clients : OnClearWorking(c)
  \/ \E c \in Clients : OnSetWorking(c)
  \/ \E c \in Clients : ClearWorkingReturn(c)
  \/ Tick

SpecClear == InitClear /\ [][NextClear]_vars

(* ----------------------- the notification effect ----------------------- *)
\* currentUser?.name
UserName(u) == IF u = <<>> THEN Undef ELSE u[1].name

\* previousOrders.find((p) => p.id === o.id): <<>> (undefined) or <<p>>.
FindPrev(prev, id) == IF FindIndex(prev, id) = 0 THEN <<>> ELSE <<prev[FindIndex(prev, id)]>>

Notification(type, title, id) == [type |-> type, title |-> title, id |-> id]

\* A variant of EffectCompares that diffs whatever the two lists hold.
EffectComparesAlways(prev, cur) == TRUE

\* The outer test of the effect.
EffectCompares(prev, cur) == Len(prev) > 0 /\ Len(cur) > 0

\* The test around the "Nuevo Pedido" notification.
NotifiesNewOrder(u) == UserName(u) # "Vale"

\* The inner test of the "Estado Actualizado" notification: `last && last.user !== name`.
NotifiesStatusOf(o, u) ==
  Len(o.history) > 0 /\ o.history[Len(o.history)].user # UserName(u)

\* A variant of StartedWorking that does not look at who the claimant is.
StartedWorkingAnyone(p, o, u) ==
  ~Truthy(p.currentlyWorkingBy) /\ Truthy(o.currentlyWorkingBy)

\* The test of the "Trabajando en Pedido" notification.
StartedWorking(p, o, u) ==
  /\ ~Truthy(p.currentlyWorkingBy) /\ Truthy(o.currentlyWorkingBy)
  /\ o.currentlyWorkingBy # UserName(u)

\* newOrders.forEach(...): one notification per order of `cur` with no order of that
\* id in `prev`.
RECURSIVE NewOrderNotifications(_, _, _, _)
NewOrderNotifications(prev, cur, u, i) ==
  IF i > Len(cur) THEN <<>>
  ELSE (IF FindIndex(prev, cur[i].id) = 0 /\ NotifiesNewOrder(u)
        THEN <<Notification("info", "Nuevo Pedido", cur[i].id)>> ELSE <<>>)
       \o NewOrderNotifications(prev, cur, u, i + 1)

\* The body of orders.forEach((o) => ...) for one order.
ChangeNotificationsOf(prev, o, u) ==
  IF FindPrev(prev, o.id) = <<>> THEN <<>>
  ELSE LET p == FindPrev(prev, o.id)[1] IN
       (IF p.status # o.status /\ NotifiesStatusOf(o, u)
        THEN <<Notification("success", "Estado Actualizado", o.id)>> ELSE <<>>)
       \o (IF StartedWorking(p, o, u)
           THEN <<Notification("info", "Trabajando en Pedido", o.id)>> ELSE <<>>)

RECURSIVE ChangeNotifications(_, _, _, _)
ChangeNotifications(prev, cur, u, i) ==
  IF i > Len(cur) THEN <<>>
  ELSE ChangeNotificationsOf(prev, cur[i], u) \o ChangeNotifications(prev, cur, u, i + 1)

\* What one run of the effect hands to addNotification, in order.
ProjectNotifications(prev, cur, u) ==
  IF EffectCompares(prev, cur)
  THEN NewOrderNotifications(prev, cur, u, 1) \o ChangeNotifications(prev, cur, u, 1)
  ELSE <<>>

\* The effect on [orders, currentUser]: the notifications, then setPreviousOrders(orders).
NotificationEffect(c) ==
  /\ proc[c].pc = "effect"
  /\ notifications' = [notifications EXCEPT
                         ![c] = @ \o ProjectNotifications(previousOrders[c], orders[c],
                                                          currentUser[c])]
  /\ previousOrders' = [previousOrders EXCEPT ![c] = orders[c]]
  /\ proc' = [proc EXCEPT ![c] = Idle]
  /\ UNCHANGED <<mode, rt, delivered, corrupt, db, ls, cache, sinceFetch, orders, buckets,
                 currentUser, selectedOrder, savedUser, nextOrderId, nextHistId, calls,
                 failures, nextActions, mounted, interval, channels>>

\* The rows the `users` table may hold: the built-in users, and a coordinator of the
\* name the effect knows.
TableUsers == Users \cup {[id |-> "vale-1", name |-> "Vale", role |-> "vale"]}

\* An order as a snapshot may show it: status, claimant, and the user of its history
\* entry ("" for an order with no history entry).
SnapshotOrder(id, st, by, lastUser) ==
  [AnyOrder(id, st, FALSE) EXCEPT
     !.currentlyWorkingBy = by,
     !.workingStartTime = IF Truthy(by) THEN "T" ELSE Undef,
     !.history = IF lastUser = "" THEN <<>> ELSE <<[id |-> 1, user |-> lastUser, timestamp |-> 1]>>]

SnapshotOrders(id) ==
  IF id = 1
  THEN {SnapshotOrder(1, st, by, lu) : st \in {"en_armado", "armado"},
                                       by \in {Undef, Null, "Camilo"},
                                       lu \in {"", "Riki", "Camilo"}}
  ELSE {SnapshotOrder(id, "en_armado", by, "Riki") : by \in {Undef, "Jesus"}}

Snapshots ==
  {<<>>} \cup {<<a>> : a \in SnapshotOrders(1)} \cup {<<b>> : b \in SnapshotOrders(2)}
         \cup {<<a, b>> : a \in SnapshotOrders(1), b \in SnapshotOrders(2)}

\* Client c1 with any previous snapshot, any new snapshot and any session user, the
\* effect pending; previousOrders = <<>> is the page that has observed nothing yet.
InitNotify ==
  /\ mode \in {"remote"}
  /\ db = EmptyDb /\ ls = <<>>
  /\ cache = [c \in Clients |-> <<>>]
  /\ sinceFetch = [c \in Clients |-> CACHE_MS]
  /\ \E cur \in Snapshots : orders = [c \in Clients |-> IF c = "c1" THEN cur ELSE <<>>]
  /\ buckets = [c \in Clients |-> Categorize(<<>>)]
  /\ \E u \in TableUsers : currentUser = [c \in Clients |-> <<u>>]
  /\ selectedOrder = [c \in Clients |-> <<>>]
  /\ savedUser = [c \in Clients |-> <<>>]
  /\ proc = [c \in Clients |-> IF c = "c1" THEN [Idle EXCEPT !.h = "effect", !.pc = "effect"]
                               ELSE Idle]
  /\ nextOrderId = 3
  /\ nextHistId = 2
  /\ calls = 0
  /\ failures = 0
  /\ rt = [c \in Clients |-> <<>>]
  /\ delivered = 0
  /\ corrupt = NoCorrupt
  /\ \E prev \in Snapshots :
       previousOrders = [c \in Clients |-> IF c = "c1" THEN prev ELSE <<>>]
  /\ notifications = [c \in Clients |-> <<>>]
  /\ nextActions = [c \in Clients |-> <<>>]
  /\ mounted = Clients
  /\ interval = {}
  /\ channels = Clients

NextNotify == \E c \in Clients : NotificationEffect(c)

SpecNotify == InitNotify /\ [][NextNotify]_vars

(* ------------------------------ the cards ------------------------------ *)
\* A variant of NotArmedBy that lets the person who armed the order through.
NotArmedByAnyone(order, user) == TRUE

\* The second test of the operator's "Controlar Armado" rule.
NotArmedBy(order, user) == order.armedBy # user.name

\* getNextActionForUser: the label of the action, Null for null.
getNextActionForUser(order, user) ==
  IF user.role = "armador" /\ order.status = "en_armado" THEN "Armar Pedido"
  ELSE IF user.role = "armador" /\ order.status = "armado" /\ NotArmedBy(order, user)
  THEN "Controlar Armado"
  ELSE IF user.role = "armador" /\ order.status = "facturado" THEN "Controlar Factura"
  ELSE IF user.role = "armador" /\ order.status = "factura_controlada"
  THEN "Marcar En Transito"
  ELSE IF user.role = "armador" /\ order.status = "en_transito" THEN "Marcar Entregado"
  ELSE IF user.role = "armador" /\ order.status = "entregado" /\ ~order.isPaid
  THEN "Procesar Pago"
  ELSE IF user.role = "vale" /\ order.status = "en_armado" THEN "Editar Presupuesto"
  ELSE IF user.role = "vale" /\ order.status = "armado_controlado" THEN "Facturar"
  ELSE IF user.role = "vale" /\ order.awaitingPaymentVerification
  THEN "Verificar Transferencia"
  ELSE Null

\* renderOrderCard for every order of the page: the nextAction and canWork it computes.
RenderOrderCards(c) ==
  /\ proc[c].pc = "cards"
  /\ nextActions' =
       [nextActions EXCEPT
          ![c] = IF currentUser[c] = <<>> THEN <<>>
                 ELSE [i \in 1..Len(orders[c]) |->
                         [nextAction |-> getNextActionForUser(orders[c][i], currentUser[c][1]),
                          canWork |-> canUserWorkOnOrder(orders[c][i], currentUser[c][1])]]]
  /\ proc' = [proc EXCEPT ![c] = Idle]
  /\ UNCHANGED <<mode, rt, delivered, corrupt, db, ls, cache, sinceFetch, orders, buckets,
                 currentUser, selectedOrder, savedUser, nextOrderId, nextHistId, calls,
                 failures, previousOrders, notifications, mounted, interval, channels>>

\* An order with the two fields getNextActionForUser reads besides status and isPaid.
CardOrder(id, st, paid, by, armedBy, awaiting) ==
  [currentlyWorkingBy |-> by,
   workingStartTime |-> IF Truthy(by) THEN "T" ELSE Undef,
   armedBy |-> armedBy,
   awaitingPaymentVerification |-> awaiting]
  @@ AnyOrder(id, st, paid)

CardOrders ==
  {CardOrder(1, st, paid, by, armedBy, awaiting) :
     st \in StatusSet, paid \in BOOLEAN, by \in {Undef, "Camilo", "Jesus"},
     armedBy \in {Undef, "Camilo"}, awaiting \in BOOLEAN}

\* Client c1 showing any one order to any user, the render of its card pending.
InitCards ==
  /\ mode \in {"remote"}
  /\ db = EmptyDb /\ ls = <<>>
  /\ cache = [c \in Clients |-> <<>>]
  /\ sinceFetch = [c \in Clients |-> CACHE_MS]
  /\ \E o \in CardOrders : orders = [c \in Clients |-> IF c = "c1" THEN <<o>> ELSE <<>>]
  /\ buckets = [c \in Clients |-> Categorize(<<>>)]
  /\ \E u \in Users : currentUser = [c \in Clients |-> <<u>>]
  /\ selectedOrder = [c \in Clients |-> <<>>]
  /\ savedUser = [c \in Clients |-> <<>>]
  /\ proc = [c \in Clients |-> IF c = "c1" THEN [Idle EXCEPT !.h = "render", !.pc = "cards"]
                               ELSE Idle]
  /\ nextOrderId = 2
  /\ nextHistId = 2
  /\ calls = 0
  /\ failures = 0
  /\ rt = [c \in Clients |-> <<>>]
  /\ delivered = 0
  /\ InitPage
  /\ corrupt = NoCorrupt

NextCards == \E c \in Clients : RenderOrderCards(c)

SpecCards == InitCards /\ [][NextCards]_vars

(* ------------------------- broadcast receiver -------------------------- *)
\* A variant of AuthoredBy for which nobody is the author.
AuthoredByNobody(notif, currentUserName) == FALSE

\* The handler's test, negated: the payload names the receiving user as excluded.
AuthoredBy(notif, currentUserName) == notif.excludeUser = currentUserName

\* The payloads broadcastNotification writes: excludeUser is optional.
BroadcastPayloads ==
  {[type |-> t, title |-> "broadcast", message |-> 0, excludeUser |-> x] :
     t \in {"success", "error", "info", "warning"},
     x \in {Undef, ""} \cup {u.name : u \in Users}}

\* The storage events a tab may receive: any key; the item removed (newValue null),
\* holding text that does not parse, or holding a payload.
StorageEvents ==
  {[key |-> k, newValue |-> v] :
     k \in {"broadcast_notification", "orders"},
     v \in {[text |-> "null"], [text |-> "corrupt"]}
           \cup {[text |-> "json", value |-> p] : p \in BroadcastPayloads}}

\* The "storage" listener of useBroadcastNotifications, registered with
\* currentUser?.name || "", and the page's onNotification.
OnStorageEvent(c) ==
  /\ proc[c].pc = "storage"
  /\ LET e == proc[c].arg[1]
         currentUserName == IF Truthy(UserName(currentUser[c])) THEN UserName(currentUser[c])
                            ELSE ""
     IN notifications' =
          IF /\ e.key = "broadcast_notification" /\ e.newValue.text = "json"
             /\ ~AuthoredBy(e.newValue.value, currentUserName)
          THEN [notifications EXCEPT
                  ![c] = Append(@, Notification(e.newValue.value.type, e.newValue.value.title,
                                                e.newValue.value.message))]
          ELSE notifications
  /\ proc' = [proc EXCEPT ![c] = Idle]
  /\ UNCHANGED <<mode, rt, delivered, corrupt, db, ls, cache, sinceFetch, orders, buckets,
                 currentUser, selectedOrder, savedUser, nextOrderId, nextHistId, calls,
                 failures, previousOrders, nextActions, mounted, interval, channels>>

\* Client c1 with any session user or none, any storage event pending.
InitBroadcast ==
  /\ mode \in {"remote"}
  /\ db = EmptyDb /\ ls = <<>>
  /\ cache = [c \in Clients |-> <<>>]
  /\ sinceFetch = [c \in Clients |-> CACHE_MS]
  /\ orders = [c \in Clients |-> <<>>]
  /\ buckets = [c \in Clients |-> Categorize(<<>>)]
  /\ \E u \in {<<>>} \cup {<<v>> : v \in Users} : currentUser = [c \in Clients |-> u]
  /\ selectedOrder = [c \in Clients |-> <<>>]
  /\ savedUser = [c \in Clients |-> <<>>]
  /\ \E e \in StorageEvents :
       proc = [c \in Clients |-> IF c = "c1" THEN [Idle EXCEPT !.h = "storage", !.pc = "storage",
                                                               !.arg = <<e>>]
                                 ELSE Idle]
  /\ nextOrderId = 2
  /\ nextHistId = 2
  /\ calls = 0
  /\ failures = 0
  /\ rt = [c \in Clients |-> <<>>]
  /\ delivered = 0
  /\ InitPage
  /\ corrupt = NoCorrupt

NextBroadcast == \E c \in Clients : OnStorageEvent(c)

SpecBroadcast == InitBroadcast /\ [][NextBroadcast]_vars

(* --------------------- mounting and the fallback poll ------------------- *)
\* A variant of ClearInterval that leaves the interval running.
ClearIntervalNot(c) == interval

\* The cleanup of the poll's effect: clearInterval(it).
ClearInterval(c) == interval \ {c}

\* The page of client c mounts: the poll's effect starts its interval only when there
\* is no backend client, the realtime effect subscribes its channel only when there is
\* one.  (The initial effect is Load.)
Mount(c) ==
  /\ c \notin mounted
  /\ mounted' = mounted \cup {c}
  /\ interval' = IF useLocalStorage THEN interval \cup {c} ELSE interval
  /\ channels' = IF useLocalStorage THEN channels ELSE channels \cup {c}
  /\ UNCHANGED <<mode, rt, delivered, corrupt, db, ls, cache, sinceFetch, orders, buckets,
                 currentUser, selectedOrder, savedUser, proc, nextOrderId, nextHistId, calls,
                 failures, previousOrders, notifications, nextActions>>

\* The page of client c unmounts with no handler in flight: the effects' cleanups run
\* (clearInterval, removeChannel) and the page's state is discarded; the module's
\* ordersCache and lastFetchTime stay.
Unmount(c) ==
  /\ c \in mounted /\ proc[c] = Idle /\ rt[c] = <<>>
  /\ mounted' = mounted \ {c}
  /\ interval' = ClearInterval(c)
  /\ channels' = channels \ {c}
  /\ orders' = [orders EXCEPT ![c] = <<>>]
  /\ buckets' = [buckets EXCEPT ![c] = Categorize(<<>>)]
  /\ currentUser' = [currentUser EXCEPT ![c] = <<>>]
  /\ selectedOrder' = [selectedOrder EXCEPT ![c] = <<>>]
  /\ previousOrders' = [previousOrders EXCEPT ![c] = <<>>]
  /\ notifications' = [notifications EXCEPT ![c] = <<>>]
  /\ nextActions' = [nextActions EXCEPT ![c] = <<>>]
  /\ UNCHANGED <<mode, rt, delivered, corrupt, db, ls, cache, sinceFetch, savedUser, proc,
                 nextOrderId, nextHistId, calls, failures>>

\* The interval of client c fires: fetchOrders() with its defaults (not forced, not
\* prioritized), then setOrders(data).
PollTick(c) ==
  /\ c \in interval /\ proc[c] = Idle
  /\ proc' = [proc EXCEPT ![c] = [Idle EXCEPT !.h = "poll", !.pc = "fetch", !.force = FALSE,
                                              !.prio = FALSE]]
  /\ UNCHANGED <<mode, pageVars, rt, delivered, corrupt, db, ls, cache, sinceFetch, orders,
                 buckets, currentUser, selectedOrder, savedUser, nextOrderId, nextHistId,
                 calls, failures>>

\* No page mounted yet; the store holds order 1 or orders 1 and 2.
InitLife ==
  /\ mode \in Modes
  /\ \/ /\ db = IF mode = "remote" THEN PaidSeedDb ELSE EmptyDb
        /\ ls = IF mode = "local" THEN PaidSeedLs ELSE <<>>
        /\ nextOrderId = 2 /\ nextHistId = 2
     \/ /\ db = IF mode = "remote" THEN TwoSeedDb ELSE EmptyDb
        /\ ls = IF mode = "local" THEN TwoSeedLs ELSE <<>>
        /\ nextOrderId = 3 /\ nextHistId = 3
  /\ cache = [c \in Clients |-> <<>>]
  /\ sinceFetch = [c \in Clients |-> CACHE_MS]
  /\ orders = [c \in Clients |-> <<>>]
  /\ buckets = [c \in Clients |-> Categorize(<<>>)]
  /\ currentUser = [c \in Clients |-> <<>>]
  /\ selectedOrder = [c \in Clients |-> <<>>]
  /\ savedUser = [c1 |-> <<>>, c2 |-> <<DEFAULT_USERS[2]>>]
  /\ proc = [c \in Clients |-> Idle]
  /\ calls = MaxCalls
  /\ failures = 0
  /\ rt = [c \in Clients |-> <<>>]
  /\ delivered = 0
  /\ corrupt = NoCorrupt
  /\ previousOrders = [c \in Clients |-> <<>>]
  /\ notifications = [c \in Clients |-> <<>>]
  /\ nextActions = [c \in Clients |-> <<>>]
  /\ mounted = {}
  /\ interval = {}
  /\ channels = {}

NextLife ==
  \/ \E c \in Clients : Mount(c)
  \/ \E c \in Clients : Unmount(c)
  \/ \E c \in Clients : Load(c)
  \/ \E c \in Clients : PollTick(c)
  \/ \E c \in Clients : FetchOrdersCall(c)
  \/ \E c \in Clients : FetchOrdersResp(c)
  \/ \E c \in Clients : OnPostgresChange(c)
  \/ \E c \in Clients, k \in 1..MaxNotifs : RealtimeFetchResp(c, k)
  \/ Tick

SpecLife == InitLife /\ [][NextLife]_vars

(* ----------------------------- properties ------------------------------ *)
\* The order the store holds under an id, as a fetch hands it out.
HasStored(id) ==
  IF useLocalStorage THEN ls # <<>> /\ FindIndex(ls[1], id) # 0
  ELSE db.orders[id] # <<>>

StoredOrder(id) ==
  IF useLocalStorage THEN parseStored(ls[1][FindIndex(ls[1], id)])
  ELSE mapOrderRow(JoinedRow(id))

StoredOrders == {StoredOrder(id) : id \in {i \in OrderIds : HasStored(i)}}

CachedOrders == UNION {Range(cache[c]) : c \in Clients}

StoredHistIds(id) == IF HasStored(id) THEN HistIds(StoredOrder(id).history) ELSE {}

\* The client whose handler takes the step.
StepOf(c) == proc'[c] # proc[c]

\* Client c starts handleUpdateOrder(order) in this step.
StartsUpdate(c) == proc[c].h = "idle" /\ proc'[c].h = "update"

ClaimPaired(o) == Truthy(o.currentlyWorkingBy) <=> Truthy(o.workingStartTime)

\* C1: in every reachable state, every order in a cache and in the store has
\* currentlyWorkingBy set if and only if workingStartTime is set.  (The first order
\* to break the equivalence cannot come from an updateOrder argument that breaks it:
\* arguments are built from orders a fetch handed out.)
C1_ClaimFieldsPaired == \A o \in StoredOrders \cup CachedOrders : ClaimPaired(o)

BucketsOf(c, o) ==
  {b \in {"activeOrders", "pendingPaymentOrders", "completedOrders"} :
     o \in Range(buckets[c][b])}

\* C2: once the page has rendered its orders, every order of the page, whatever its
\* status and paid flag, is in exactly one of activeOrders, pendingPaymentOrders and
\* completedOrders.
C2_BucketsPartition ==
  \A c \in Clients :
    (proc[c].pc # "render" /\ buckets[c] = Categorize(orders[c])) =>
      \A o \in Range(orders[c]) : Cardinality(BucketsOf(c, o)) = 1

\* C3: no fetch result and no cache shows an order with a changed status but without
\* the history entry that came with the change.
C3_StatusWithHistory ==
  \A c \in Clients : \A o \in Range(orders[c]) \cup Range(cache[c]) :
    o.statusHist # 0 => o.statusHist \in HistIds(o.history)

\* The roles the transition table allows to move an order from one status to another.
TransitionRoles(from, to) ==
  IF <<from, to>> \in {<<"en_armado", "armado">>, <<"armado", "armado_controlado">>,
                       <<"facturado", "factura_controlada">>,
                       <<"factura_controlada", "en_transito">>,
                       <<"en_transito", "entregado">>}
  THEN {"armador"}
  ELSE IF <<from, to>> = <<"armado_controlado", "facturado">> THEN {"vale"}
  ELSE IF <<from, to>> = <<"entregado", "pagado">> THEN {"vale", "armador"}
  ELSE {}

\* C4: when a user submits an order whose status differs from the stored one and the
\* transition table does not allow the user's role that move from the stored status,
\* the store and the caches do not change.
C4_UnpermittedRejected ==
  [][\A c \in Clients :
       (/\ StartsUpdate(c)
        /\ HasStored(proc'[c].arg[1].id)
        /\ StoredOrder(proc'[c].arg[1].id).status # proc'[c].arg[1].status
        /\ proc'[c].user[1].role \notin
             TransitionRoles(StoredOrder(proc'[c].arg[1].id).status, proc'[c].arg[1].status))
       => UNCHANGED <<db, ls, cache>>]_vars

\* C5: submitting the move of a delivered order to pagado with isPaid = false is
\* rejected: neither the store nor the caches change, so the order is not left
\* pagado with isPaid = false in either.
C5_UnpaidPagadoRejected ==
  [][\A c \in Clients :
       (/\ StartsUpdate(c)
        /\ HasStored(proc'[c].arg[1].id)
        /\ StoredOrder(proc'[c].arg[1].id).status = "entregado"
        /\ proc'[c].arg[1].status = "pagado" /\ ~proc'[c].arg[1].isPaid)
       => /\ UNCHANGED <<db, ls, cache>>
          /\ \A o \in StoredOrders' \cup CachedOrders' : o.status = "pagado" => o.isPaid]_vars

\* The claimant the store records for an order ("" when there is none).
StoreClaimant(id) ==
  IF HasStored(id) /\ Truthy(StoredOrder(id).currentlyWorkingBy)
  THEN StoredOrder(id).currentlyWorkingBy ELSE ""

\* Client c opens order o in this step: handleOrderSelect(o) starts.
Opens(c, o) ==
  /\ proc[c].h = "idle" /\ currentUser[c] # <<>> /\ o \in Range(orders[c])
  /\ \/ proc'[c].h = "select" /\ proc'[c].arg = <<o>>
     \/ proc'[c].h = "idle" /\ selectedOrder'[c] = <<o>> /\ selectedOrder[c] # <<o>>

\* C6 as stated: while the store records operator A's claim on an en_armado order,
\* another operator B opening the order does not become its claimant and
\* canUserWorkOnOrder refuses B; it always allows a coordinator.
C6_ClaimExcludesOthers ==
  [][\A c \in Clients : \A o \in Range(orders[c]) :
       (/\ Opens(c, o)
        /\ currentUser[c][1].role = "armador"
        /\ HasStored(o.id) /\ StoredOrder(o.id).status = "en_armado"
        /\ StoreClaimant(o.id) \notin {"", currentUser[c][1].name})
       => /\ StoreClaimant(o.id)' = StoreClaimant(o.id)
          /\ ~canUserWorkOnOrder(o, currentUser[c][1])]_vars

\* C6 amended: when the order an operator B opens shows operator A's claim, the
\* opening changes no claim (store and caches stay as they are, B just views the
\* order) and canUserWorkOnOrder refuses B; canUserWorkOnOrder allows a coordinator
\* on every order of every page.
C6_ShownClaimExcludesOthers ==
  [][/\ \A c \in Clients : \A o \in Range(orders[c]) :
          (/\ Opens(c, o)
           /\ currentUser[c][1].role = "armador"
           /\ o.status = "en_armado"
           /\ Truthy(o.currentlyWorkingBy) /\ o.currentlyWorkingBy # currentUser[c][1].name)
          => /\ UNCHANGED <<db, ls, cache>>
             /\ selectedOrder'[c] = <<o>>
             /\ ~canUserWorkOnOrder(o, currentUser[c][1])
     /\ \A c \in Clients : \A o \in Range(orders[c]) : \A u \in Users :
          u.role = "vale" => canUserWorkOnOrder(o, u)]_vars

\* After a single handler call, operator A's claim, another operator views the order,
\* which shows, and whose store row records, A's claim.
C6_Witness ==
  \E c \in Clients :
    /\ calls = 1
    /\ currentUser[c] # <<>> /\ currentUser[c][1].role = "armador"
    /\ selectedOrder[c] # <<>>
    /\ selectedOrder[c][1].status = "en_armado"
    /\ Truthy(selectedOrder[c][1].currentlyWorkingBy)
    /\ selectedOrder[c][1].currentlyWorkingBy # currentUser[c][1].name
    /\ StoreClaimant(selectedOrder[c][1].id) = selectedOrder[c][1].currentlyWorkingBy

\* Two nullable values agree: both unset, or both set to the same value.
SameNullable(x, y) == IF Truthy(x) THEN x = y ELSE ~Truthy(y)

\* Two orders agree in every semantic field.
SameSemantics(a, b) ==
  /\ a.id = b.id /\ a.status = b.status /\ a.isPaid = b.isPaid
  /\ SameNullable(a.currentlyWorkingBy, b.currentlyWorkingBy)
  /\ SameNullable(a.workingStartTime, b.workingStartTime)
  /\ a.totalAmount = b.totalAmount
  /\ a.products = b.products
  /\ a.missingProducts = b.missingProducts
  /\ a.returnedProducts = b.returnedProducts
  /\ a.history = b.history

\* C7: when updateOrder(order) returns true, the order a forced fetch hands out for
\* that id equals the argument in every semantic field, in remote and in local mode.
C7_UpdateRoundTrip ==
  \A c \in Clients :
    (proc[c].h = "update" /\ proc[c].pc = "updReturn") =>
      /\ HasStored(proc[c].arg[1].id)
      /\ SameSemantics(StoredOrder(proc[c].arg[1].id), proc[c].arg[1])

\* C8: no step of updateOrder removes a history entry id from the stored order,
\* in remote and in local mode, whatever history the argument carries.
C8_HistoryKept ==
  [][\A c \in Clients :
       (StepOf(c) /\ (proc[c].h = "update" \/ proc'[c].h = "update"))
       => \A id \in OrderIds : StoredHistIds(id) \subseteq StoredHistIds(id)']_vars

\* Client c starts handleCreateOrder in this step.
StartsCreate(c) == proc[c].h = "idle" /\ proc'[c].h = "create"

\* A line item as createOrder must leave it.
FreshItem(p) == p.originalQuantity = <<p.quantity>> /\ ~p.isChecked

\* An order as createOrder must leave it for the acting user and the form submitted.
FreshOrder(o, userName) ==
  /\ o.status = "en_armado" /\ ~o.isPaid
  /\ o.missingProducts = <<>> /\ o.returnedProducts = <<>>
  /\ ~Truthy(o.currentlyWorkingBy) /\ ~Truthy(o.workingStartTime)
  /\ Len(o.history) = 1 /\ o.history[1].user = userName
  /\ \A i \in 1..Len(o.products) : FreshItem(o.products[i])
  /\ \E d \in CreateInputs :
       d.products = [i \in 1..Len(o.products) |->
                       [id |-> o.products[i].id, quantity |-> o.products[i].quantity]]

\* C9: the order createOrder puts into the cache and into the local slot, and each row
\* it inserts remotely, is en_armado, unpaid, unclaimed, without missing or returned
\* items, with one history entry by the acting user and with line items whose
\* originalQuantity is the quantity submitted and isChecked is false; an order that
\* enters the store enters it en_armado.
C9_CreatedOrderIsFresh ==
  [][/\ \A c \in Clients :
          StartsCreate(c) =>
            \A id \in {nextOrderId} :
            LET o == proc'[c].arg[1]
                userName == currentUser[c][1].name
            IN /\ o.id = id
               /\ FreshOrder(o, userName)
               /\ ~HasStored(id)
               /\ cache'[c] = <<o>> \o cache[c]
               /\ (useLocalStorage => HasStored(id)' /\ StoredOrder(id)' = o)
               /\ (proc'[c].pc = "createProducts" =>
                     /\ HasStored(id)'
                     /\ StoredOrder(id)'.status = "en_armado"
                     /\ ~StoredOrder(id)'.isPaid
                     /\ ~Truthy(StoredOrder(id)'.currentlyWorkingBy)
                     /\ ~Truthy(StoredOrder(id)'.workingStartTime)
                     /\ StoredOrder(id)'.products = <<>>
                     /\ StoredOrder(id)'.missingProducts = <<>>
                     /\ StoredOrder(id)'.returnedProducts = <<>>
                     /\ StoredOrder(id)'.history = <<>>)
     /\ \A c \in Clients :
          (proc[c].pc = "createProducts" /\ proc'[c].pc = "createHistory") =>
            LET id == proc[c].arg[1].id IN
            /\ Len(db'.products[id]) = Len(db.products[id]) + Len(proc[c].arg[1].products)
            /\ \A i \in 1..Len(db'.products[id]) :
                 IF i <= Len(db.products[id])
                 THEN db'.products[id][i] = db.products[id][i]
                 ELSE /\ FreshItem(mapProduct(db'.products[id][i]))
                      /\ mapProduct(db'.products[id][i]) =
                           proc[c].arg[1].products[i - Len(db.products[id])]
     /\ \A c \in Clients :
          (proc[c].pc = "createHistory" /\ proc'[c].pc = "createReturn") =>
            LET id == proc[c].arg[1].id
                added == db'.order_history[id] \ db.order_history[id]
            IN /\ db.order_history[id] \subseteq db'.order_history[id]
               /\ Cardinality(added) = 1
               /\ \A h \in added : h.user_name = proc[c].user[1].name
     /\ \A id \in OrderIds :
          (~HasStored(id) /\ HasStored(id)') =>
            StoredOrder(id)'.status = "en_armado" /\ ~StoredOrder(id)'.isPaid]_vars

\* A remote createOrder has made its three inserts and is about to return true, the
\* stored order being as it left it.
C9_Witness ==
  \E c \in Clients :
    /\ proc[c].pc = "createReturn"
    /\ HasStored(proc[c].arg[1].id)
    /\ FreshOrder(StoredOrder(proc[c].arg[1].id), proc[c].user[1].name)

NotPaidOrder(o) == ~IsPaidOrder(o)

\* C10: the step that ends a successful prioritized remote fetch leaves in the cache
\* the orders the backend returned, none of them paid, followed by the paid orders the
\* cache held, each as often as it was held: nothing else, none dropped, none doubled.
C10_PrioritizedMerge ==
  [][\A c \in Clients :
       (/\ proc[c].pc = "fetchResp" /\ proc'[c].pc # "fetchResp"
        /\ proc[c].ok /\ proc[c].prio)
       => LET returned == Map(proc[c].resp, mapOrderRow)
              paidBefore == Filter(cache[c], IsPaidOrder)
          IN /\ \A i \in 1..Len(returned) : NotPaidOrder(returned[i])
             /\ Filter(cache'[c], NotPaidOrder) = returned
             /\ Filter(cache'[c], IsPaidOrder) = paidBefore
             /\ Len(cache'[c]) = Len(returned) + Len(paidBefore)
             /\ orders'[c] = cache'[c]]_vars

\* A prioritized remote fetch has come back with an order while the cache holds
\* another order, a paid one: the merge is the next step of the client.
C10_Witness ==
  \E c \in Clients :
    /\ proc[c].pc = "fetchResp" /\ proc[c].ok /\ proc[c].prio
    /\ proc[c].resp # <<>>
    /\ \E o \in Range(cache[c]) :
         IsPaidOrder(o) /\ \A i \in 1..Len(proc[c].resp) : proc[c].resp[i].id # o.id

\* The realtime callback k of client c ends on this step.
RealtimeEnds(c, k) == k <= Len(rt[c]) /\ rt'[c] = RemoveAt(rt[c], k)

\* C11: a paid order that a client's cache holds when a change notification arrives
\* is still in the cache when the prioritized re-fetch the notification triggered has
\* succeeded, as long as the order is still stored and the client is not deleting.
C11_PaidSurvivesNotification ==
  [][\A c \in Clients, k \in 1..MaxNotifs :
       (RealtimeEnds(c, k) /\ rt[c][k].ok /\ proc[c].h # "delete")
       => \A i \in 1..Len(rt[c][k].before) :
            (IsPaidOrder(rt[c][k].before[i]) /\ HasStored(rt[c][k].before[i].id))
            => rt[c][k].before[i].id \in Ids(cache'[c])]_vars

\* The initial load of client c ends on this step, its last fetch not having failed.
LoadEnds(c) ==
  /\ proc[c].h = "load" /\ proc[c].stage = 2 /\ proc'[c].h = "idle"
  /\ proc[c].pc = "fetchResp" => proc[c].ok

\* C12: in remote mode the initial load ends with the backend's paid orders in the
\* cache, next to the active ones its first fetch brought.
C12_LoadFetchesPaid ==
  [][\A c \in Clients :
       (~useLocalStorage /\ LoadEnds(c))
       => \A id \in OrderIds :
            (HasStored(id) /\ IsPaidOrder(StoredOrder(id))) => id \in Ids(cache'[c])]_vars

\* Client c's handler takes the step of fetchOrders up to its await.
FetchCallStep(c) == proc[c].pc = "fetch" /\ proc'[c] # proc[c]

\* What fetchOrders hands out when it reads the local slot.
LocalRead(c) ==
  IF corrupt.orders THEN cache[c]
  ELSE IF ls = <<>> THEN <<>> ELSE Map(ls[1], parseStored)

\* The step serves the call from the cache: no request, no read of the slot.
ServedFromCache(c) ==
  /\ orders'[c] = cache[c] /\ proc'[c].pc # "fetchResp"
  /\ cache' = cache /\ sinceFetch' = sinceFetch /\ failures' = failures

\* The step sends the query to the backend or hands out what the local slot holds.
ContactsStore(c) ==
  IF useLocalStorage THEN orders'[c] = LocalRead(c) ELSE proc'[c].pc = "fetchResp"

\* C13 (as stated): a non-forced fetchOrders issued less than CACHE_MS after the last
\* successful fetch is served from the cache, whatever the cache holds; a forced
\* fetchOrders always contacts the store.
C13_WindowServesCache ==
  [][\A c \in Clients :
       FetchCallStep(c)
       => /\ (~proc[c].force /\ sinceFetch[c] < CACHE_MS) => ServedFromCache(c)
          /\ proc[c].force => ContactsStore(c)]_vars

\* C13 (amended): a non-forced fetchOrders called less than CACHE_MS after the call
\* time of the last successful fetch is served from the cache when the cache is not
\* empty; with an empty cache it contacts the store; a forced fetchOrders always
\* contacts the store.
C13_WindowServesNonEmptyCache ==
  [][\A c \in Clients :
       FetchCallStep(c)
       => /\ (~proc[c].force /\ sinceFetch[c] < CACHE_MS /\ cache[c] # <<>>)
             => ServedFromCache(c)
          /\ (~proc[c].force /\ sinceFetch[c] < CACHE_MS /\ cache[c] = <<>>)
             => ContactsStore(c)
          /\ proc[c].force => ContactsStore(c)]_vars

\* A remote client whose load was served from the cache: it is idle with a fresh,
\* non-empty cache that lacks a stored paid order, no notification having come.
C13_Witness ==
  \E c \in Clients :
    /\ ~useLocalStorage /\ proc[c].h = "idle" /\ currentUser[c] # <<>>
    /\ delivered = 0
    /\ sinceFetch[c] < CACHE_MS /\ cache[c] # <<>> /\ orders[c] = cache[c]
    /\ \E id \in OrderIds :
         HasStored(id) /\ IsPaidOrder(StoredOrder(id)) /\ id \notin Ids(cache[c])

\* C14: in remote mode every change notification empties the cache of the client it
\* reaches and starts exactly one callback (one forced fetchOrders sent to the
\* backend) there, whatever is already in flight; and a fetchOrders that finds the
\* cache empty queries the backend even when it is not forced and inside the window.
C14_NotificationInvalidates ==
  [][/\ delivered' = delivered + 1
        => \E c \in Clients :
             /\ cache'[c] = <<>>
             /\ Len(rt'[c]) = Len(rt[c]) + 1
             /\ \A k \in 1..Len(rt[c]) : rt'[c][k] = rt[c][k]
             /\ \A d \in Clients \ {c} : rt'[d] = rt[d] /\ cache'[d] = cache[d]
     /\ \A c \in Clients :
          (FetchCallStep(c) /\ ~useLocalStorage /\ cache[c] = <<>>)
          => proc'[c].pc = "fetchResp"]_vars

\* Two notifications have reached a client whose first callback is still in flight:
\* two callbacks are running and the cache is empty.
C14_Witness ==
  \E c \in Clients : Len(rt[c]) = 2 /\ delivered = 2 /\ cache[c] = <<>>

\* C15: when a deleteOrder in flight rolls back, whatever other operations did to
\* the rest of the cache meanwhile stays: apart from the order being deleted, the
\* cache after the rollback is the cache the rollback found.
C15_RollbackKeepsOtherChanges ==
  [][\A c \in Clients :
       (proc[c].pc = "deleteCatch" /\ proc'[c].h = "idle")
       => LET NotDeleted(o) == o.id # proc[c].arg[1].id
          IN Filter(cache'[c], NotDeleted) = Filter(cache[c], NotDeleted)]_vars

\* C16: a createOrder or deleteOrder that fails at the store returns false (its
\* handler ends without the fetch of the success branch) and rolls the cache back:
\* after the failed createOrder the new order's id is not in the cache, after the
\* failed deleteOrder the cache is the one deleteOrder found, the deleted order (when
\* the cache held it) at its place with the content it had.
C16_FailedWriteRollsBack ==
  [][\A c \in Clients :
       /\ proc[c].pc = "createCatch" /\ proc'[c] # proc[c]
          => /\ proc'[c] = Idle
             /\ proc[c].arg[1].id \notin Ids(cache'[c])
       /\ proc[c].pc = "deleteCatch" /\ proc'[c] # proc[c]
          => /\ proc'[c] = Idle
             /\ cache'[c] = proc[c].arg[2]
             /\ \A i \in 1..Len(proc[c].arg[2]) :
                  proc[c].arg[2][i].id = proc[c].arg[1].id
                  => i <= Len(cache'[c]) /\ cache'[c][i] = proc[c].arg[2][i]]_vars

\* A failed deleteOrder has rolled back: the request failed, the order is stored and
\* is in the coordinator's cache, and no handler is running.
C16_Witness ==
  \E c \in Clients :
    /\ proc[c] = Idle /\ calls = MaxCalls /\ failures = MaxFailures /\ delivered = 0
    /\ ~useLocalStorage /\ db = TwoSeedDb
    /\ currentUser[c] # <<>> /\ currentUser[c][1].role = "vale"
    /\ \A id \in OrderIds : HasStored(id) /\ id \in Ids(cache[c])
    /\ orders[c] = cache[c]

\* C17: an updateOrder that fails returns false (handleUpdateOrder ends without its
\* fetch) and does not roll the cache back: the catch leaves the cache as it is, the
\* entry of the order (no notification having emptied the cache meanwhile) still
\* being the order updateOrder was given.
C17_FailedUpdateKeepsCache ==
  [][\A c \in Clients :
       (proc[c].pc = "updCatch" /\ proc'[c] # proc[c])
       => /\ proc'[c] = Idle
          /\ cache'[c] = cache[c]
          /\ (delivered = 0 /\ FindIndex(cache'[c], proc[c].arg[1].id) # 0)
             => cache'[c][FindIndex(cache'[c], proc[c].arg[1].id)] = proc[c].arg[1]]_vars

\* An updateOrder has failed: no handler runs on the client, whose cache holds an
\* order with a status change the store does not have.
C17_Witness ==
  \E c \in Clients : \E i \in 1..Len(cache[c]) :
    /\ proc[c] = Idle /\ failures = MaxFailures
    /\ HasStored(cache[c][i].id)
    /\ cache[c][i].status # StoredOrder(cache[c][i].id).status
    /\ cache[c][i].statusHist > StoredOrder(cache[c][i].id).statusHist

\* C18: a fetchOrders that fails after a change notification leaves the cache as it
\* is and returns the orders of the snapshot the notification found in the cache
\* (those still stored, the client not deleting).
C18_FailedFetchServesSnapshot ==
  [][\A c \in Clients, k \in 1..MaxNotifs :
       (RealtimeEnds(c, k) /\ ~rt[c][k].ok /\ proc[c].h # "delete")
       => /\ cache'[c] = cache[c]
          /\ \A i \in 1..Len(rt[c][k].before) :
               HasStored(rt[c][k].before[i].id)
               => rt[c][k].before[i].id \in Ids(orders'[c])]_vars

\* C19: a slot that does not parse is treated as absent and removed: a fetchOrders
\* that reads a corrupt "orders" slot returns the empty list and leaves no slot
\* behind, a load that reads a corrupt "currentUser" slot goes on as with no saved
\* user and leaves no corrupt slot behind.
C19_CorruptSlotCleared ==
  [][\A c \in Clients :
       /\ (FetchCallStep(c) /\ useLocalStorage /\ corrupt.orders /\ ~CacheWindowHit(c))
          => orders'[c] = <<>> /\ ~corrupt'.orders /\ ls' = <<>>
       /\ (proc[c].h = "idle" /\ proc'[c].h = "load" /\ corrupt.currentUser[Slot(c)])
          => currentUser'[c] = <<DEFAULT_USERS[1]>> /\ ~corrupt'.currentUser[Slot(c)]]_vars

\* Client c calls clearWorkingOnOrder for order id in this step.
CallsClear(c, id) ==
  proc[c].h = "idle" /\ proc'[c].pc = "clearwReturn" /\ proc'[c].arg[1].id = id

\* Neither the store nor client c's cache records a claimant for order id.
NoClaimant(c, id) ==
  /\ HasStored(id) /\ ~Truthy(StoredOrder(id).currentlyWorkingBy)
  /\ \A i \in 1..Len(cache[c]) :
       cache[c][i].id = id => ~Truthy(cache[c][i].currentlyWorkingBy)

\* C20: clearWorkingOnOrder on an order without claimant changes no field of the
\* order in the store or in the cache (so a second call changes nothing either) and,
\* its request not failing, returns true.
C20_ClearUnclaimedIsNoOp ==
  [][\A c \in Clients, id \in OrderIds :
       (CallsClear(c, id) /\ NoClaimant(c, id))
       => /\ HasStored(id)' /\ SameSemantics(StoredOrder(id), StoredOrder(id)')
          /\ Len(cache'[c]) = Len(cache[c])
          /\ \A i \in 1..Len(cache[c]) : SameSemantics(cache[c][i], cache'[c][i])
          /\ (failures' = failures /\ ~corrupt.orders) => proc'[c].ok]_vars

\* C21: a claim made by opening an order is released when the detail view is closed:
\* once no request has failed, every detail view is closed and no handler is running,
\* the store and the caches record no claimant and no start time.
C21_ClosedViewsLeaveNoClaim ==
  (/\ failures = 0
   /\ \A c \in Clients : proc[c] = Idle /\ selectedOrder[c] = <<>>)
  => \A o \in StoredOrders \cup CachedOrders :
       ~Truthy(o.currentlyWorkingBy) /\ ~Truthy(o.workingStartTime)

\* The users of the coordinator role.
ValeNames == {u.name : u \in {v \in Users : v.role = "vale"}}

NoValeClaimant ==
  \A o \in StoredOrders \cup CachedOrders : o.currentlyWorkingBy \notin ValeNames

\* Client c opens an order from its list: handleOrderSelect starts.
OpensOrder(c) ==
  /\ proc[c].h = "idle"
  /\ \/ proc'[c].h = "select"
     \/ /\ proc'[c] = proc[c]
        /\ selectedOrder'[c] # selectedOrder[c] /\ selectedOrder'[c] # <<>>

\* C22: opening an order sets the claim only when the user is an operator (armador),
\* the order is en_armado and the order is unclaimed in the client's snapshot; a call
\* of setWorkingOnOrder for any other role writes nothing, and a coordinator (vale) is
\* never an order's currentlyWorkingBy.
C22_OnlyOperatorsClaim ==
  [][/\ \A c \in Clients :
          /\ OpensOrder(c) =>
               IF proc'[c].h = "select"
               THEN /\ currentUser[c][1].role = "armador"
                    /\ \E i \in 1..Len(orders[c]) :
                         /\ orders[c][i] = proc'[c].arg[1]
                         /\ orders[c][i].status = "en_armado"
                         /\ ~Truthy(orders[c][i].currentlyWorkingBy)
               ELSE UNCHANGED <<db, ls, cache>>
          /\ (proc[c].h = "idle" /\ proc'[c].h = "setw") => currentUser[c][1].role = "armador"
          /\ (/\ proc[c].h = "idle" /\ currentUser[c] # <<>>
              /\ currentUser[c][1].role # "armador"
              /\ \A d \in Clients : proc'[d] = proc[d]
              /\ calls' # calls)
             => UNCHANGED <<db, ls, cache>>
     /\ NoValeClaimant']_vars

C22_Witness ==
  \E c \in Clients :
    /\ proc[c].h = "select" /\ proc[c].pc = "setwReturn"
    /\ proc[c].user[1].role = "armador"
    /\ \E o \in StoredOrders : o.id = proc[c].arg[1].id
                               /\ o.currentlyWorkingBy = proc[c].user[1].name
    /\ \E d \in Clients : d # c /\ selectedOrder[d] # <<>>
                          /\ currentUser[d] # <<>> /\ currentUser[d][1].role = "vale"

\* The client whose notification effect runs in the step.
EffectRuns(c) == proc[c].pc = "effect" /\ proc'[c].pc # "effect"

\* How many notifications of a title the step hands to addNotification for an order.
Emitted(c, title, id) ==
  Cardinality({i \in (Len(notifications[c]) + 1)..Len(notifications'[c]) :
                 notifications'[c][i].title = title /\ notifications'[c][i].id = id})

InBoth(c, id) == id \in Ids(previousOrders[c]) /\ id \in Ids(orders[c])

PrevOf(c, id) == previousOrders[c][FindIndex(previousOrders[c], id)]

CurOf(c, id) == orders[c][FindIndex(orders[c], id)]

\* C23: a run of the effect emits one 'new order' notification for every order id that
\* is in the current snapshot and not in the previous one, and none at all when the
\* current user has the coordinator role (vale), whatever the user's name.
C23_NewOrderNotified ==
  [][\A c \in Clients : EffectRuns(c) =>
       \A id \in OrderIds :
         Emitted(c, "Nuevo Pedido", id) =
           IF /\ currentUser[c][1].role # "vale"
              /\ id \in Ids(orders[c]) /\ id \notin Ids(previousOrders[c])
           THEN 1 ELSE 0]_vars

\* C24: for every order in both snapshots a run of the effect emits one 'status
\* changed' notification when the status differs and the user of the order's most
\* recent history entry is not the current user, and none when the status is the same.
C24_StatusChangeNotified ==
  [][\A c \in Clients : EffectRuns(c) =>
       \A id \in OrderIds : InBoth(c, id) =>
         Emitted(c, "Estado Actualizado", id) =
           IF /\ PrevOf(c, id).status # CurOf(c, id).status
              /\ ~(/\ Len(CurOf(c, id).history) > 0
                   /\ CurOf(c, id).history[Len(CurOf(c, id).history)].user
                        = currentUser[c][1].name)
           THEN 1 ELSE 0]_vars

\* C25: for every order in both snapshots a run of the effect emits one 'someone
\* started working' notification exactly when currentlyWorkingBy was unset in the
\* previous snapshot, is set in the current one, and is not the current user.
C25_StartedWorkingNotified ==
  [][\A c \in Clients : EffectRuns(c) =>
       \A id \in OrderIds :
         Emitted(c, "Trabajando en Pedido", id) =
           IF /\ InBoth(c, id)
              /\ PrevOf(c, id).currentlyWorkingBy \in {Undef, Null}
              /\ CurOf(c, id).currentlyWorkingBy \notin {Undef, Null}
              /\ CurOf(c, id).currentlyWorkingBy # currentUser[c][1].name
           THEN 1 ELSE 0]_vars

C25_Witness ==
  /\ Len(orders["c1"]) = 2 /\ Ids(orders["c1"]) = {1, 2}
  /\ proc["c1"] = Idle /\ previousOrders["c1"] = orders["c1"]
  /\ currentUser["c1"][1].name = "Jesus"
  /\ \E i \in 1..Len(notifications["c1"]) :
       /\ notifications["c1"][i].title = "Trabajando en Pedido"
       /\ notifications["c1"][i].id = 1
  /\ \A i \in 1..Len(notifications["c1"]) : notifications["c1"][i].id # 2
  /\ orders["c1"][2].currentlyWorkingBy = "Jesus"

\* C26: the run of the effect on the first snapshot the page observes (nothing
\* observed before, previousOrders empty) emits no notification, whatever the
\* snapshot holds.
C26_FirstSnapshotSilent ==
  [][\A c \in Clients : (EffectRuns(c) /\ previousOrders[c] = <<>>) =>
       /\ notifications'[c] = notifications[c]
       /\ previousOrders'[c] = orders[c]]_vars

C26_Witness ==
  /\ Len(orders["c1"]) = 2 /\ Ids(orders["c1"]) = {1, 2}
  /\ proc["c1"] = Idle /\ notifications["c1"] = <<>>
  /\ previousOrders["c1"] = orders["c1"]
  /\ orders["c1"][1].status = "armado" /\ orders["c1"][1].currentlyWorkingBy = "Camilo"
  /\ Len(orders["c1"][1].history) > 0 /\ orders["c1"][1].history[1].user = "Riki"
  /\ orders["c1"][2].currentlyWorkingBy = "Jesus"
  /\ currentUser["c1"][1].name = "Jesus"

\* C27: getNextActionForUser returns at most one action, and none for an order in
\* pagado (either role, any other fields) and none, for an operator, for an order
\* claimed by another user.
C27_NoActionWhenPaidOrClaimed ==
  [][\A c \in Clients : (proc[c].pc = "cards" /\ proc'[c].pc # "cards") =>
       \A i \in 1..Len(orders[c]) :
         LET o == orders[c][i]
             u == currentUser[c][1]
         IN /\ o.status = "pagado" => nextActions'[c][i].nextAction = Null
            /\ (/\ u.role = "armador" /\ Truthy(o.currentlyWorkingBy)
                /\ o.currentlyWorkingBy # u.name)
               => nextActions'[c][i].nextAction = Null]_vars

\* C28: the receiver of a cross-tab broadcast calls onNotification only for a payload
\* whose excludeUser differs from the receiver's current user name, never for one whose
\* excludeUser equals it.
C28_OwnBroadcastIgnored ==
  [][\A c \in Clients : (proc[c].pc = "storage" /\ proc'[c].pc # "storage") =>
       LET e == proc[c].arg[1]
           name == IF currentUser[c] = <<>> THEN "" ELSE currentUser[c][1].name
       IN /\ notifications'[c] # notifications[c]
             => /\ e.key = "broadcast_notification" /\ e.newValue.text = "json"
                /\ e.newValue.value.excludeUser # name
                /\ Len(notifications'[c]) = Len(notifications[c]) + 1
          /\ (/\ e.key = "broadcast_notification" /\ e.newValue.text = "json"
              /\ e.newValue.value.excludeUser # name)
             => notifications'[c] # notifications[c]]_vars

C28_Witness ==
  /\ proc["c1"] = Idle /\ currentUser["c1"] # <<>> /\ currentUser["c1"][1].name = "Camilo"
  /\ Len(notifications["c1"]) = 1
  /\ notifications["c1"][1].title = "broadcast" /\ notifications["c1"][1].type = "warning"

\* C29: the fallback poll exists in local mode only and every tick of it starts a
\* fetchOrders call; teardown is symmetric: unmounting clears the interval and removes
\* the realtime channel, after which no poll fetch is started and no notification is
\* handled by that client; in remote mode there is never an interval.
C29_PollAndTeardown ==
  [][/\ \A c \in Clients :
          /\ (proc[c].h # "poll" /\ proc'[c].h = "poll")
             => /\ useLocalStorage /\ c \in mounted /\ c \in interval
                /\ proc'[c].pc = "fetch" /\ ~proc'[c].force
          /\ (c \in mounted /\ c \notin mounted') => (c \notin interval' /\ c \notin channels')
          /\ c \notin mounted
             => /\ c \notin interval /\ c \notin channels
                /\ proc'[c].h # "poll"
                /\ Len(rt'[c]) <= Len(rt[c])
          /\ (c \in mounted') => (c \in interval' <=> useLocalStorage)
          /\ (c \in mounted') => (c \in channels' <=> ~useLocalStorage)
     /\ ~useLocalStorage => interval' = {}]_vars

\* Client c1 torn down after use, client c2 still mounted with a poll fetch started.
C29_Witness ==
  /\ useLocalStorage
  /\ "c1" \notin mounted /\ cache["c1"] # <<>> /\ "c1" \notin interval
  /\ "c2" \in mounted /\ proc["c2"].h = "poll" /\ proc["c2"].pc = "fetch"

\* The cache of client c holds every stored order with the stored content, and no
\* order the store does not have.
Converged(c) ==
  /\ \A id \in OrderIds : HasStored(id) => \E i \in 1..Len(cache[c]) : cache[c][i] = StoredOrder(id)
  /\ \A i \in 1..Len(cache[c]) : HasStored(cache[c][i].id)

\* Client c has loaded and has nothing in flight: without a further mutation, manual
\* refresh or (local mode) poll tick, nothing more happens on it.
Quiet(c) ==
  /\ c \in mounted /\ currentUser[c] # <<>>
  /\ proc[c] = Idle /\ rt[c] = <<>>

\* C30: clients converge on the store: with the store no longer changing and no fetch
\* having failed, a client that has loaded and has no fetch in flight holds in its cache
\* every stored order with the stored content and no order the store does not have.
C30_QuietClientsConverged ==
  failures = 0 => \A c \in Clients : Quiet(c) => Converged(c)

\* C31: the check of the picking needs a different person: the card's next action is
\* 'Controlar Armado' exactly for an operator, an order in armado, and an armedBy that
\* is not that operator's name; never for the operator who armed the order, never for
\* a coordinator.
C31_ControlByAnotherPerson ==
  [][\A c \in Clients : (proc[c].pc = "cards" /\ proc'[c].pc # "cards") =>
       \A i \in 1..Len(orders[c]) :
         LET o == orders[c][i]
             u == currentUser[c][1]
         IN (nextActions'[c][i].nextAction = "Controlar Armado")
            <=> (u.role = "armador" /\ o.status = "armado" /\ o.armedBy # u.name)]_vars

C31_Witness ==
  /\ proc["c1"] = Idle /\ Len(orders["c1"]) = 1 /\ Len(nextActions["c1"]) = 1
  /\ orders["c1"][1].status = "armado" /\ orders["c1"][1].armedBy = "Camilo"
  /\ currentUser["c1"][1].name = "Jesus"
  /\ nextActions["c1"][1].nextAction = "Controlar Armado"

\* C32: no client's cache ever holds two orders with the same id.
C32_CacheIdsUnique ==
  \A c \in Clients : \A i, j \in 1..Len(cache[c]) : cache[c][i].id = cache[c][j].id => i = j

\* The claim fields of an order.
ClaimOf(o) == <<o.currentlyWorkingBy, o.workingStartTime>>

\* C33: clearWorkingOnOrder(orderId, userName, "armador") releases only a claim that
\* userName holds: called for an order that the store and the caller's cache show as
\* claimed by another user, it leaves the claim fields as they are in the store and in
\* the cache, in local and in remote mode.
C33_ClearLeavesOthersClaim ==
  [][\A c \in Clients, id \in OrderIds :
       (/\ CallsClear(c, id) /\ proc'[c].user[1].role = "armador"
        /\ HasStored(id) /\ Truthy(StoredOrder(id).currentlyWorkingBy)
        /\ StoredOrder(id).currentlyWorkingBy # proc'[c].user[1].name)
       => /\ HasStored(id)' /\ ClaimOf(StoredOrder(id)') = ClaimOf(StoredOrder(id))
          /\ Len(cache'[c]) = Len(cache[c])
          /\ \A i \in 1..Len(cache[c]) : ClaimOf(cache'[c][i]) = ClaimOf(cache[c][i])]_vars

\* C34: createOrder is all-or-nothing at the backend: when it returns false in remote
\* mode, no table of the backend holds a row for the new order id.
C34_FailedCreateLeavesNoRow ==
  [][\A c \in Clients :
       (~useLocalStorage /\ proc[c].pc = "createCatch" /\ proc'[c].pc # "createCatch")
       => \A id \in {proc[c].arg[1].id} :
            /\ db'.orders[id] = <<>>
            /\ db'.products[id] = <<>>
            /\ db'.order_history[id] = {}]_vars

\* C35: when setWorkingOnOrder fails at the backend, the cached order's
\* currentlyWorkingBy and workingStartTime are afterwards what they were before the
\* call; a claim another user held in the cache is still shown.
C35_FailedClaimRestoresCache ==
  [][\A c \in Clients :
       (~useLocalStorage /\ proc[c].pc = "setwCatch" /\ proc'[c].pc # "setwCatch")
       => /\ Len(cache'[c]) = Len(proc[c].resp[1])
          /\ \A i \in 1..Len(cache'[c]) :
               /\ SameNullable(cache'[c][i].currentlyWorkingBy,
                               proc[c].resp[1][i].currentlyWorkingBy)
               /\ SameNullable(cache'[c][i].workingStartTime,
                               proc[c].resp[1][i].workingStartTime)]_vars

\* C36: once deleteOrder(id) has succeeded, the order does not come back into the
\* deleting client's cache: from the return of deleteOrder until the handler that
\* deleted it has finished, no step puts an order of that id into that client's cache,
\* also when a fetch issued before the delete completes after it.
C36_DeletedStaysOut ==
  [][\A c \in Clients :
       (proc[c].h = "delete" /\ proc[c].pc \in {"fetch", "fetchResp"})
       => proc[c].arg[1].id \notin Ids(cache'[c])]_vars

\* C37: after a successful createOrder in remote mode the optimistic order in the
\* cache and the inserted rows carry the same ids: when createOrder is about to return
\* true, the cached order it created has the history ids and the line-item ids of the
\* rows stored under its id.
C37_CreatedIdsAgree ==
  \A c \in Clients :
    (~useLocalStorage /\ proc[c].h = "create" /\ proc[c].pc = "createReturn")
    => \A i \in 1..Len(cache[c]) :
         cache[c][i].id = proc[c].arg[1].id
         => LET o == cache[c][i]
                hist == db.order_history[o.id]
                prods == db.products[o.id]
            IN /\ HistIds(o.history) = {r.id : r \in hist}
               /\ {o.products[k].id : k \in 1..Len(o.products)}
                    = {prods[k].id : k \in 1..Len(prods)}
====
